---- MODULE Spec2Model ----
(***************************************************************************)
(* A model of the transaction execution substrate of radixdlt-scrypto:     *)
(* the Track (radix-engine/src/engine/track.rs), its IdAllocator           *)
(* (engine/id_allocator.rs), the ResourceDef (model/resource_def.rs) and   *)
(* the Account blueprint (assets/account/src/lib.rs).                      *)
(*                                                                         *)
(* A u64 bitmap is modelled by the set of the positions of its set bits:   *)
(* a & b is the intersection, a | b the union and a ^ b the symmetric      *)
(* difference.  TLC's integers are 32-bit signed, so a u32 n is modelled by *)
(* U32(n) = n - 2^31: the order and the successor of u32 are kept, 0 is    *)
(* the least integer and u32::MAX = 2^32 - 1 is 2147483647.                *)
(***************************************************************************)
EXTENDS Integers, Sequences, FiniteSets, TLC

VARIABLES
    ledger,        \* the SubstateStore the Track wraps (Track.ledger)
    track,         \* the fields of the Track struct
    phase,         \* "live", "committed", "panicked" or "dropped"
    ret,           \* what the last Track call returned
    process,       \* the root Process of start_process, or NoProcess
    ledger_at_new, \* the store as it was when Track::new ran
    written,       \* per cache, the value last written to each key through
                   \* put_* or through the reference get_*_mut returned
    nops,          \* Track calls made on this Track
    resource_def,  \* a ResourceDef, or NoResourceDef before ResourceDef::new
    rd_call,       \* the last call made on resource_def, with its arguments
    rd_result,     \* what that call returned: "Ok" or the error
    rd_before,     \* resource_def as it was before that call
    substate_store, \* the vaults and resource definitions committed
    tx,            \* the transaction in progress: its receipt, what its
                   \* Track staged, and the tables of its root Process
    ids,           \* an IdAllocator, a second one driven by the same calls,
                   \* and what their calls returned
    codec          \* the last conversion made: its input, what it returned
                   \* and what the conversion back returned

trackVars == <<ledger, track, phase, ret, process, ledger_at_new, written, nops>>

resVars == <<resource_def, rd_call, rd_result, rd_before>>

txVars == <<substate_store, tx>>

idVars == <<ids>>

codecVars == <<codec>>

nonTrackVars == <<resVars, txVars, idVars, codecVars>>

nonResVars == <<trackVars, txVars, idVars, codecVars>>

nonTxVars == <<trackVars, resVars, idVars, codecVars>>

nonIdVars == <<trackVars, resVars, txVars, codecVars>>

nonCodecVars == <<trackVars, resVars, txVars, idVars>>

vars == <<trackVars, resVars, txVars, idVars, codecVars>>

(***************************************************************************)
(* Bounds.                                                                 *)
(***************************************************************************)
NumKeys == 2
NumVals == 2
MaxOps == 2
NumPublicKeys == 2
MaxSigners == 2

Keys == 1..NumKeys
Vals == 1..NumVals
PublicKeys == 1..NumPublicKeys

\* Option::None, for an absent value
None == 0

NoProcess == [depth |-> -1]

\* The Vec<EcdsaPublicKey> a transaction can carry (duplicates allowed).
SignerLists == UNION {[1..n -> PublicKeys] : n \in 0..MaxSigners}

(***************************************************************************)
(* HashMap helpers.                                                        *)
(***************************************************************************)
EmptyMap == [k \in {} |-> None]

Insert(m, k, v) == [x \in DOMAIN m \cup {k} |-> IF x = k THEN v ELSE m[x]]

Lookup(m, k) == IF k \in DOMAIN m THEN m[k] ELSE None

Kinds == {"packages", "components", "resource_defs", "lazy_maps", "vaults",
          "non_fungibles"}

(***************************************************************************)
(* IdAllocator.                                                            *)
(***************************************************************************)
\* The model's integer for the u32 n (n at most 2^31 - 1 as a literal).
U32(n) == (n - 2147483647) - 1

\* u32::MAX, 4294967295, as the model's integer
U32_MAX == 2147483647

ECDSA_TOKEN_BID == U32(0)

ECDSA_TOKEN_RID == U32(1)

ECDSA_TOKEN == "ECDSA_TOKEN"

IdAllocator_new(kind) ==
    CASE kind = "System" -> [start |-> U32(0), end |-> U32(512)]
      [] kind = "Transaction" -> [start |-> U32(512), end |-> U32(1024)]
      [] kind = "Application" -> [start |-> U32(1024), end |-> U32_MAX]

\* Range<u32>::len() > 0
HasNext(available) == available.start < available.end

\* IdAllocator::next, when it returns Ok(id): the id and the allocator after
NextId(available) == available.start

AfterNext(available) == [available EXCEPT !.start = available.start + 1]

(***************************************************************************)
(* Track.                                                                  *)
(***************************************************************************)
\* Track::new with the allocator of the system's ids
Track_new_system(hash, signers) ==
    [ transaction_hash |-> hash,
      transaction_signers |-> signers,
      id_allocator |-> IdAllocator_new("System"),
      logs |-> <<>>,
      packages |-> EmptyMap,
      components |-> EmptyMap,
      resource_defs |-> EmptyMap,
      lazy_maps |-> EmptyMap,
      vaults |-> EmptyMap,
      non_fungibles |-> EmptyMap,
      updated_packages |-> {},
      updated_components |-> {},
      updated_lazy_maps |-> {},
      updated_resource_defs |-> {},
      updated_vaults |-> {},
      updated_non_fungibles |-> {},
      new_entities |-> <<>> ]

Track_new(hash, signers) ==
    [ transaction_hash |-> hash,
      transaction_signers |-> signers,
      id_allocator |-> IdAllocator_new("Application"),
      logs |-> <<>>,
      packages |-> EmptyMap,
      components |-> EmptyMap,
      resource_defs |-> EmptyMap,
      lazy_maps |-> EmptyMap,
      vaults |-> EmptyMap,
      non_fungibles |-> EmptyMap,
      updated_packages |-> {},
      updated_components |-> {},
      updated_lazy_maps |-> {},
      updated_resource_defs |-> {},
      updated_vaults |-> {},
      updated_non_fungibles |-> {},
      new_entities |-> <<>> ]

\* The cache after the read path: the entry is kept if present, else fetched
\* from the store and inserted, else left absent.
ReadThrough(cache, store, k) ==
    IF k \in DOMAIN cache THEN cache
    ELSE IF k \in DOMAIN store THEN Insert(cache, k, store[k])
    ELSE cache

\* The name of the updated set that accompanies a cache.
UpdatedOf(kind) ==
    CASE kind = "packages" -> "updated_packages"
      [] kind = "components" -> "updated_components"
      [] kind = "resource_defs" -> "updated_resource_defs"
      [] kind = "lazy_maps" -> "updated_lazy_maps"
      [] kind = "vaults" -> "updated_vaults"
      [] kind = "non_fungibles" -> "updated_non_fungibles"

Live == phase = "live" /\ nops < MaxOps

Step == /\ nops' = nops + 1
        /\ UNCHANGED <<ledger, phase, process, ledger_at_new, nonTrackVars>>

\* A call that writes no cached value.
NoWrite == UNCHANGED written

\* get_<kind>(k) fetching from the store whenever the store holds the key
GetFromStore(kind, k) ==
    /\ Live
    /\ LET c == IF k \in DOMAIN ledger[kind]
                THEN Insert(track[kind], k, ledger[kind][k])
                ELSE track[kind] IN
         /\ track' = [track EXCEPT ![kind] = c]
         /\ ret' = Lookup(c, k)
    /\ NoWrite
    /\ Step

\* get_<kind>(k) marking the key as updated
GetMarking(kind, k) ==
    /\ Live
    /\ LET c == ReadThrough(track[kind], ledger[kind], k) IN
         /\ track' = [track EXCEPT ![UpdatedOf(kind)] = track[UpdatedOf(kind)] \cup {k},
                                   ![kind] = c]
         /\ ret' = Lookup(c, k)
    /\ NoWrite
    /\ Step

\* get_<kind>(k): the immutable getter
Get(kind, k) ==
    /\ Live
    /\ LET c == ReadThrough(track[kind], ledger[kind], k) IN
         /\ track' = [track EXCEPT ![kind] = c]
         /\ ret' = Lookup(c, k)
    /\ NoWrite
    /\ Step

\* get_<kind>_mut(k): the mutable getter; the caller that receives Some(&mut v)
\* leaves w in place of v (w = v: no change).
GetMut(kind, k, w) ==
    /\ Live
    /\ LET c == ReadThrough(track[kind], ledger[kind], k)
           u == track[UpdatedOf(kind)] \cup {k} IN
         /\ track' = [track EXCEPT ![UpdatedOf(kind)] = u,
                                   ![kind] = IF k \in DOMAIN c
                                             THEN Insert(c, k, w) ELSE c]
         /\ written' = IF k \in DOMAIN c
                        THEN [written EXCEPT ![kind] = Insert(written[kind], k, w)]
                        ELSE written
         /\ ret' = Lookup(c, k)
    /\ Step

\* put_<kind>(k, v) writing through to the store at once
PutThrough(kind, k, v) ==
    /\ Live
    /\ track' = [track EXCEPT ![UpdatedOf(kind)] = track[UpdatedOf(kind)] \cup {k},
                              ![kind] = Insert(track[kind], k, v)]
    /\ written' = [written EXCEPT ![kind] = Insert(written[kind], k, v)]
    /\ ret' = None
    /\ nops' = nops + 1
    /\ ledger' = [ledger EXCEPT ![kind] = Insert(ledger[kind], k, v)]
    /\ UNCHANGED <<phase, process, ledger_at_new, nonTrackVars>>

\* put_<kind>(k, v)
Put(kind, k, v) ==
    /\ Live
    /\ track' = [track EXCEPT ![UpdatedOf(kind)] = track[UpdatedOf(kind)] \cup {k},
                              ![kind] = Insert(track[kind], k, v)]
    /\ written' = [written EXCEPT ![kind] = Insert(written[kind], k, v)]
    /\ ret' = None
    /\ Step

get_package(address) == Get("packages", address)

get_package_mut(address, w) == GetMut("packages", address, w)

put_package(address, package) == Put("packages", address, package)

get_component(address) == Get("components", address)

get_component_mut(address, w) == GetMut("components", address, w)

put_component(address, component) == Put("components", address, component)

get_non_fungible(key) == Get("non_fungibles", key)

get_non_fungible_mut(key, w) == GetMut("non_fungibles", key, w)

put_non_fungible(key, non_fungible) == Put("non_fungibles", key, non_fungible)

get_lazy_map(mid) == Get("lazy_maps", mid)

get_lazy_map_mut(mid, w) == GetMut("lazy_maps", mid, w)

put_lazy_map(mid, lazy_map) == Put("lazy_maps", mid, lazy_map)

get_resource_def(address) == Get("resource_defs", address)

get_resource_def_mut(address, w) == GetMut("resource_defs", address, w)

put_resource_def(address, rd) == Put("resource_defs", address, rd)

get_vault_mut(vid, w) == GetMut("vaults", vid, w)

put_vault(vid, vault) == Put("vaults", vid, vault)

add_log(level, message) ==
    /\ Live
    /\ track' = [track EXCEPT !.logs = Append(track.logs, <<level, message>>)]
    /\ ret' = None
    /\ NoWrite
    /\ Step

\* sha256_twice(transaction_hash ++ counter) is taken to be collision free:
\* an address is its variant and the pair that was hashed.
Address(variant, hash, counter) == <<variant, hash, counter>>

\* new_*_address putting the address before the new entities
NewAddress_in_front(variant) ==
    /\ Live
    /\ HasNext(track.id_allocator)
    /\ LET address == Address(variant, track.transaction_hash,
                              NextId(track.id_allocator)) IN
         /\ track' = [track EXCEPT !.id_allocator = AfterNext(track.id_allocator),
                                   !.new_entities = <<address>> \o track.new_entities]
         /\ ret' = address
    /\ NoWrite
    /\ Step

\* new_package_address, new_component_address, new_resource_address
NewAddress(variant) ==
    /\ Live
    /\ HasNext(track.id_allocator)
    /\ LET address == Address(variant, track.transaction_hash,
                              NextId(track.id_allocator)) IN
         /\ track' = [track EXCEPT !.id_allocator = AfterNext(track.id_allocator),
                                   !.new_entities = Append(track.new_entities, address)]
         /\ ret' = address
    /\ NoWrite
    /\ Step

new_package_address == NewAddress("Package")

new_component_address == NewAddress("Component")

new_resource_address == NewAddress("ResourceDef")

\* new_uuid, new_bid, new_rid, new_vid, new_mid
NewId(kind) ==
    /\ Live
    /\ HasNext(track.id_allocator)
    /\ track' = [track EXCEPT !.id_allocator = AfterNext(track.id_allocator)]
    /\ ret' = IF kind \in {"Bid", "Rid"}
              THEN <<kind, NextId(track.id_allocator)>>
              ELSE <<kind, track.transaction_hash, NextId(track.id_allocator)>>
    /\ NoWrite
    /\ Step

new_uuid == NewId("Uuid")

new_bid == NewId("Bid")

new_vid == NewId("Vid")

new_rid == NewId("Rid")

new_mid == NewId("Mid")

\* The key set of the virtual signature bucket.
SignerKeys(signers) == {signers[i] : i \in DOMAIN signers}

\* start_process that seeds the virtual bucket only for a signed transaction
start_process_if_signed ==
    /\ phase = "live"
    /\ process = NoProcess
    /\ process' = [ depth |-> 0,
                    buckets |-> [b \in IF track.transaction_signers = <<>> THEN {}
                                       ELSE {ECDSA_TOKEN_BID} |->
                        [ resource_address |-> ECDSA_TOKEN,
                          resource_type |-> "NonFungible",
                          keys |-> SignerKeys(track.transaction_signers) ]],
                    bucket_refs |-> [r \in IF track.transaction_signers = <<>> THEN {}
                                           ELSE {ECDSA_TOKEN_RID} |-> ECDSA_TOKEN_BID] ]
    /\ UNCHANGED <<ledger, track, phase, ret, ledger_at_new, written, nops, nonTrackVars>>

start_process ==
    /\ phase = "live"
    /\ process = NoProcess
    /\ process' = [ depth |-> 0,
                    buckets |-> [b \in {ECDSA_TOKEN_BID} |->
                        [ resource_address |-> ECDSA_TOKEN,
                          resource_type |-> "NonFungible",
                          keys |-> SignerKeys(track.transaction_signers) ]],
                    bucket_refs |-> [r \in {ECDSA_TOKEN_RID} |-> ECDSA_TOKEN_BID] ]
    /\ UNCHANGED <<ledger, track, phase, ret, ledger_at_new, written, nops, nonTrackVars>>

\* The order in which commit forwards the six caches.
CommitOrder == <<"packages", "components", "resource_defs", "lazy_maps",
                 "vaults", "non_fungibles">>

\* One loop of commit that puts only the keys the store does not hold yet.
ForwardNew(store, cache, updated) ==
    [k \in DOMAIN store \cup updated |->
        IF k \in DOMAIN store THEN store[k] ELSE cache[k]]

\* One loop of commit run to its end: every updated key's cached value is put.
Forward(store, cache, updated) ==
    [k \in DOMAIN store \cup updated |->
        IF k \in updated THEN cache[k] ELSE store[k]]

\* Every updated key has a cached value: no unwrap() of commit can fail.
CanForward(kind) == track[UpdatedOf(kind)] \subseteq DOMAIN track[kind]

\* commit, all six loops running to their end
commit_ok ==
    /\ phase = "live"
    /\ \A kind \in Kinds : CanForward(kind)
    /\ ledger' = [kind \in Kinds |->
                     Forward(ledger[kind], track[kind], track[UpdatedOf(kind)])]
    /\ phase' = "committed"
    /\ ret' = None
    /\ UNCHANGED <<track, process, ledger_at_new, written, nops, nonTrackVars>>

\* commit, panicking in the loop of CommitOrder[i] on an updated key with no
\* cached value: the earlier loops have run, and this one has put the keys
\* the HashSet iteration met before that key (any set of the cached ones).
commit_panic ==
    /\ phase = "live"
    /\ \E i \in DOMAIN CommitOrder :
         /\ ~CanForward(CommitOrder[i])
         /\ \A j \in 1..(i - 1) : CanForward(CommitOrder[j])
         /\ \E done \in SUBSET (track[UpdatedOf(CommitOrder[i])]
                                   \cap DOMAIN track[CommitOrder[i]]) :
              ledger' = [kind \in Kinds |->
                  IF \E j \in 1..(i - 1) : CommitOrder[j] = kind
                  THEN Forward(ledger[kind], track[kind], track[UpdatedOf(kind)])
                  ELSE IF kind = CommitOrder[i]
                  THEN Forward(ledger[kind], track[kind], done)
                  ELSE ledger[kind]]
    /\ phase' = "panicked"
    /\ ret' = None
    /\ UNCHANGED <<track, process, ledger_at_new, written, nops, nonTrackVars>>

\* The transaction failed: the Track is dropped without commit.
drop_track ==
    /\ phase = "live"
    /\ phase' = "dropped"
    /\ ret' = None
    /\ UNCHANGED <<ledger, track, process, ledger_at_new, written, nops, nonTrackVars>>

(***************************************************************************)
(* Decimal: an i128 count of 10^-18 units.  The model writes the raw value *)
(* w * 10^18 + m * 10^9 + f in three limbs (w, m, f), with m and f below   *)
(* 10^9 in size and of one sign with w, so that sums and differences of    *)
(* the small values of the model are taken limb by limb.                   *)
(***************************************************************************)
DecLimbs(w, m, f) == [w |-> w, m |-> m, f |-> f]

Dec(w, f) == DecLimbs(w, 0, f)

DecAdd(a, b) == DecLimbs(a.w + b.w, a.m + b.m, a.f + b.f)

DecSub(a, b) == DecLimbs(a.w - b.w, a.m - b.m, a.f - b.f)

\* Decimal::is_negative
is_negative(a) ==
    \/ a.w < 0
    \/ a.w = 0 /\ a.m < 0
    \/ a.w = 0 /\ a.m = 0 /\ a.f < 0

Pow10[n \in 0..9] == IF n = 0 THEN 1 ELSE 10 * Pow10[n - 1]

\* NotMultipleOfPow10 that ignores the middle limb
NotMultipleOfPow10_low(a, p) ==
    IF p <= 9 THEN a.f % Pow10[p] # 0 ELSE a.f # 0

\* amount.0 % 10^p != 0, for a non-negative amount and p in 0..18: 10^p
\* divides w * 10^18; for p <= 9 it divides m * 10^9 as well, and for
\* p > 9 it divides the amount when f = 0 and 10^(p - 9) divides m.
NotMultipleOfPow10(a, p) ==
    IF p <= 9 THEN a.f % Pow10[p] # 0
    ELSE a.f # 0 \/ a.m % Pow10[p - 9] # 0

(***************************************************************************)
(* Resource flags and permissions: single-bit u64 constants, each written  *)
(* as the one-element set that holds the bit.                              *)
(***************************************************************************)
MINTABLE == {"MINTABLE"}

BURNABLE == {"BURNABLE"}

FREELY_BURNABLE == {"FREELY_BURNABLE"}

RESTRICTED_TRANSFER == {"RESTRICTED_TRANSFER"}

INDIVIDUAL_METADATA_MUTABLE == {"INDIVIDUAL_METADATA_MUTABLE"}

SHARED_METADATA_MUTABLE == {"SHARED_METADATA_MUTABLE"}

ALL_FLAGS ==
    MINTABLE \cup BURNABLE \cup FREELY_BURNABLE \cup RESTRICTED_TRANSFER
        \cup INDIVIDUAL_METADATA_MUTABLE \cup SHARED_METADATA_MUTABLE

MAY_MINT == {"MAY_MINT"}

MAY_BURN == {"MAY_BURN"}

MAY_TRANSFER == {"MAY_TRANSFER"}

MAY_CHANGE_INDIVIDUAL_METADATA == {"MAY_CHANGE_INDIVIDUAL_METADATA"}

MAY_CHANGE_SHARED_METADATA == {"MAY_CHANGE_SHARED_METADATA"}

MAY_MANAGE_RESOURCE_FLAGS == {"MAY_MANAGE_RESOURCE_FLAGS"}

ALL_PERMISSIONS ==
    MAY_MINT \cup MAY_BURN \cup MAY_TRANSFER \cup MAY_CHANGE_INDIVIDUAL_METADATA
        \cup MAY_CHANGE_SHARED_METADATA \cup MAY_MANAGE_RESOURCE_FLAGS

\* a ^ b on bitmaps
BitXor(a, b) == (a \ b) \cup (b \ a)

resource_flags_are_valid(flags) == flags \subseteq ALL_FLAGS

resource_permissions_are_valid(permission) == permission \subseteq ALL_PERMISSIONS

(***************************************************************************)
(* ResourceDef.  Every operation is an operator from the ResourceDef (and  *)
(* the arguments) to the result and the ResourceDef after the call.        *)
(***************************************************************************)
NoResourceDef == [resource_type |-> "none"]

NoBadge == "None"

Fungible(divisibility) == [type |-> "Fungible", divisibility |-> divisibility]

\* ResourceType::divisibility() of a non-fungible type is 0
NonFungible == [type |-> "NonFungible", divisibility |-> 0]

\* Supply::Fungible { amount } and NewSupply::Fungible { amount }
SupplyFungible(amount) == [type |-> "Fungible", amount |-> amount, keys |-> {}]

\* Supply::NonFungible { keys }; NewSupply::NonFungible { entries } is
\* written by the key set of its entries
SupplyNonFungible(keys) == [type |-> "NonFungible", amount |-> Dec(0, 0), keys |-> keys]

NoSupply == [type |-> "None", amount |-> Dec(0, 0), keys |-> {}]

Ok(rd) == [result |-> "Ok", rd |-> rd]

Err(error, rd) == [result |-> error, rd |-> rd]

is_flag_on(rd, flag) == (rd.flags \cap flag) = flag

check_permission_always(rd, badge, permission) == "Ok"

check_permission(rd, badge, permission) ==
    IF /\ badge # NoBadge
       /\ badge \in DOMAIN rd.authorities
       /\ (rd.authorities[badge] \cap permission) = permission
    THEN "Ok"
    ELSE "PermissionNotAllowed"

\* 18 - divisibility is taken in u8 and underflows above 18: a panic, or
\* with wrapping arithmetic a remainder by 10^255 mod 2^128 = 0, a panic too
check_amount(rd, amount) ==
    IF is_negative(amount) THEN "Ok"
    ELSE IF rd.resource_type.divisibility > 18 THEN "panic"
    ELSE IF NotMultipleOfPow10(amount, 18 - rd.resource_type.divisibility)
    THEN "InvalidAmount"
    ELSE "Ok"

\* check_take_from_vault_auth that lets every badge take
check_take_from_vault_auth_free(rd, badge) == "Ok"

check_take_from_vault_auth(rd, badge) ==
    IF ~is_flag_on(rd, RESTRICTED_TRANSFER) THEN "Ok"
    ELSE check_permission(rd, badge, MAY_TRANSFER)

check_mint_auth(rd, badge) ==
    IF is_flag_on(rd, MINTABLE) THEN check_permission(rd, badge, MAY_MINT)
    ELSE "OperationNotAllowed"

\* check_burn_auth without the outer BURNABLE test
check_burn_auth_no_burnable(rd, badge) ==
    IF is_flag_on(rd, FREELY_BURNABLE) THEN "Ok"
    ELSE check_permission(rd, badge, MAY_BURN)

check_burn_auth(rd, badge) ==
    IF is_flag_on(rd, BURNABLE)
    THEN IF is_flag_on(rd, FREELY_BURNABLE) THEN "Ok"
         ELSE check_permission(rd, badge, MAY_BURN)
    ELSE "OperationNotAllowed"

check_manage_flags_auth(rd, badge) ==
    check_permission(rd, badge, MAY_MANAGE_RESOURCE_FLAGS)

check_update_metadata_auth(rd, badge) ==
    IF is_flag_on(rd, SHARED_METADATA_MUTABLE)
    THEN check_permission(rd, badge, MAY_CHANGE_SHARED_METADATA)
    ELSE "OperationNotAllowed"

check_update_non_fungible_mutable_data_auth(rd, badge) ==
    IF is_flag_on(rd, INDIVIDUAL_METADATA_MUTABLE)
    THEN check_permission(rd, badge, MAY_CHANGE_INDIVIDUAL_METADATA)
    ELSE "OperationNotAllowed"

\* ResourceDef::new without the tests of the flags and of the permissions
ResourceDef_new_unvalidated(resource_type, metadata, flags, mutable_flags, authorities, initial_supply) ==
    LET resource_def0 == [ resource_type |-> resource_type,
                           metadata |-> metadata,
                           flags |-> flags,
                           mutable_flags |-> mutable_flags,
                           authorities |-> authorities,
                           total_supply |-> Dec(0, 0) ]
        with(total) == [resource_def0 EXCEPT !.total_supply = total]
    IN
    IF resource_type.type = "Fungible" /\ initial_supply.type = "Fungible"
    THEN IF resource_type.divisibility > 18
         THEN Err("InvalidDivisibility", NoResourceDef)
         ELSE IF check_amount(resource_def0, initial_supply.amount) # "Ok"
         THEN Err("InvalidAmount", NoResourceDef)
         ELSE Ok(with(initial_supply.amount))
    ELSE IF resource_type.type = "NonFungible" /\ initial_supply.type = "NonFungible"
    THEN Ok(with(Dec(Cardinality(initial_supply.keys), 0)))
    ELSE IF initial_supply.type = "None"
    THEN Ok(with(Dec(0, 0)))
    ELSE Err("TypeAndSupplyNotMatching", NoResourceDef)

ResourceDef_new(resource_type, metadata, flags, mutable_flags, authorities, initial_supply) ==
    LET resource_def0 == [ resource_type |-> resource_type,
                           metadata |-> metadata,
                           flags |-> flags,
                           mutable_flags |-> mutable_flags,
                           authorities |-> authorities,
                           total_supply |-> Dec(0, 0) ]
        with(total) == [resource_def0 EXCEPT !.total_supply = total]
    IN
    IF ~resource_flags_are_valid(flags)
    THEN Err("InvalidResourceFlags", NoResourceDef)
    ELSE IF ~resource_flags_are_valid(mutable_flags)
    THEN Err("InvalidResourceFlags", NoResourceDef)
    ELSE IF \E b \in DOMAIN authorities :
                ~resource_permissions_are_valid(authorities[b])
    THEN Err("InvalidResourcePermission", NoResourceDef)
    ELSE IF resource_type.type = "Fungible" /\ initial_supply.type = "Fungible"
    THEN IF resource_type.divisibility > 18
         THEN Err("InvalidDivisibility", NoResourceDef)
         ELSE IF check_amount(resource_def0, initial_supply.amount) # "Ok"
         THEN Err("InvalidAmount", NoResourceDef)
         ELSE Ok(with(initial_supply.amount))
    ELSE IF resource_type.type = "NonFungible" /\ initial_supply.type = "NonFungible"
    THEN Ok(with(Dec(Cardinality(initial_supply.keys), 0)))
    ELSE IF initial_supply.type = "None"
    THEN Ok(with(Dec(0, 0)))
    ELSE Err("TypeAndSupplyNotMatching", NoResourceDef)

\* mint that takes a supply of either variant whatever the resource type
mint_unmatched(rd, supply, badge) ==
    IF check_mint_auth(rd, badge) # "Ok"
    THEN Err(check_mint_auth(rd, badge), rd)
    ELSE IF supply.type = "Fungible"
    THEN IF check_amount(rd, supply.amount) # "Ok"
         THEN Err("InvalidAmount", rd)
         ELSE Ok([rd EXCEPT !.total_supply = DecAdd(@, supply.amount)])
    ELSE Ok([rd EXCEPT !.total_supply =
                           DecAdd(@, Dec(Cardinality(supply.keys), 0))])

\* mint without the authorization check
mint_no_auth(rd, supply, badge) ==
    IF rd.resource_type.type = "Fungible"
    THEN IF supply.type = "Fungible"
         THEN IF check_amount(rd, supply.amount) # "Ok"
              THEN Err("InvalidAmount", rd)
              ELSE Ok([rd EXCEPT !.total_supply = DecAdd(@, supply.amount)])
         ELSE Err("TypeAndSupplyNotMatching", rd)
    ELSE IF supply.type = "NonFungible"
         THEN Ok([rd EXCEPT !.total_supply =
                                DecAdd(@, Dec(Cardinality(supply.keys), 0))])
         ELSE Err("TypeAndSupplyNotMatching", rd)

mint(rd, supply, badge) ==
    IF check_mint_auth(rd, badge) # "Ok"
    THEN Err(check_mint_auth(rd, badge), rd)
    ELSE IF rd.resource_type.type = "Fungible"
    THEN IF supply.type = "Fungible"
         THEN IF check_amount(rd, supply.amount) # "Ok"
              THEN Err("InvalidAmount", rd)
              ELSE Ok([rd EXCEPT !.total_supply = DecAdd(@, supply.amount)])
         ELSE Err("TypeAndSupplyNotMatching", rd)
    ELSE IF supply.type = "NonFungible"
         THEN Ok([rd EXCEPT !.total_supply =
                                DecAdd(@, Dec(Cardinality(supply.keys), 0))])
         ELSE Err("TypeAndSupplyNotMatching", rd)

burn(rd, supply, badge) ==
    IF check_burn_auth(rd, badge) # "Ok"
    THEN Err(check_burn_auth(rd, badge), rd)
    ELSE IF rd.resource_type.type = "Fungible"
    THEN IF supply.type = "Fungible"
         THEN IF check_amount(rd, supply.amount) # "Ok"
              THEN Err("InvalidAmount", rd)
              ELSE Ok([rd EXCEPT !.total_supply = DecSub(@, supply.amount)])
         ELSE Err("TypeAndSupplyNotMatching", rd)
    ELSE IF supply.type = "NonFungible"
         THEN Ok([rd EXCEPT !.total_supply =
                                DecSub(@, Dec(Cardinality(supply.keys), 0))])
         ELSE Err("TypeAndSupplyNotMatching", rd)

\* update_flags without the test against mutable_flags
update_flags_unchecked(rd, new_flags, badge) ==
    IF check_manage_flags_auth(rd, badge) # "Ok"
    THEN Err(check_manage_flags_auth(rd, badge), rd)
    ELSE IF ~resource_flags_are_valid(BitXor(rd.flags, new_flags))
    THEN Err("InvalidResourceFlags", rd)
    ELSE Ok([rd EXCEPT !.flags = new_flags])

update_flags(rd, new_flags, badge) ==
    LET changed == BitXor(rd.flags, new_flags) IN
    IF check_manage_flags_auth(rd, badge) # "Ok"
    THEN Err(check_manage_flags_auth(rd, badge), rd)
    ELSE IF ~resource_flags_are_valid(changed)
    THEN Err("InvalidResourceFlags", rd)
    ELSE IF (rd.mutable_flags \cup changed) # rd.mutable_flags
    THEN Err("InvalidFlagUpdate", rd)
    ELSE Ok([rd EXCEPT !.flags = new_flags])

\* update_mutable_flags without the test against mutable_flags
update_mutable_flags_unchecked(rd, new_mutable_flags, badge) ==
    IF check_manage_flags_auth(rd, badge) # "Ok"
    THEN Err(check_manage_flags_auth(rd, badge), rd)
    ELSE IF ~resource_flags_are_valid(BitXor(rd.mutable_flags, new_mutable_flags))
    THEN Err("InvalidResourceFlags", rd)
    ELSE Ok([rd EXCEPT !.mutable_flags = new_mutable_flags])

\* update_mutable_flags with the badge tested after the new value
update_mutable_flags_late_auth(rd, new_mutable_flags, badge) ==
    LET changed == BitXor(rd.mutable_flags, new_mutable_flags) IN
    IF ~resource_flags_are_valid(changed)
    THEN Err("InvalidResourceFlags", rd)
    ELSE IF (rd.mutable_flags \cup changed) # rd.mutable_flags
    THEN Err("InvalidFlagUpdate", rd)
    ELSE IF check_manage_flags_auth(rd, badge) # "Ok"
    THEN Err(check_manage_flags_auth(rd, badge), rd)
    ELSE Ok([rd EXCEPT !.mutable_flags = new_mutable_flags])

update_mutable_flags(rd, new_mutable_flags, badge) ==
    LET changed == BitXor(rd.mutable_flags, new_mutable_flags) IN
    IF check_manage_flags_auth(rd, badge) # "Ok"
    THEN Err(check_manage_flags_auth(rd, badge), rd)
    ELSE IF ~resource_flags_are_valid(changed)
    THEN Err("InvalidResourceFlags", rd)
    ELSE IF (rd.mutable_flags \cup changed) # rd.mutable_flags
    THEN Err("InvalidFlagUpdate", rd)
    ELSE Ok([rd EXCEPT !.mutable_flags = new_mutable_flags])

\* The guest's ResourceDef::lock_flags(flags, auth): new_mutable_flags is
\* self.flags() & !flags, what GET_RESOURCE_FLAGS returns without the bits
\* given, and UPDATE_RESOURCE_MUTABLE_FLAGS hands it with the badge of auth
\* to update_mutable_flags
lock_flags(rd, flags, auth) == update_mutable_flags(rd, rd.flags \ flags, auth)

\* update_metadata assigning the metadata before it tests the badge
update_metadata_assign_first(rd, new_metadata, badge) ==
    IF check_update_metadata_auth(rd, badge) # "Ok"
    THEN Err(check_update_metadata_auth(rd, badge), [rd EXCEPT !.metadata = new_metadata])
    ELSE Ok([rd EXCEPT !.metadata = new_metadata])

update_metadata(rd, new_metadata, badge) ==
    IF check_update_metadata_auth(rd, badge) # "Ok"
    THEN Err(check_update_metadata_auth(rd, badge), rd)
    ELSE Ok([rd EXCEPT !.metadata = new_metadata])

(***************************************************************************)
(* The arguments the calls on a ResourceDef are drawn from.                *)
(***************************************************************************)
MaxAmount == 1
MaxSupply == 1
NumNonFungibleKeys == 1

Badges == {"b1", "b2"}

BadgeOpt == Badges \cup {NoBadge}

\* The flag bits that calls set and clear.
FlagBits == MINTABLE \cup BURNABLE \cup FREELY_BURNABLE \cup RESTRICTED_TRANSFER

\* The permission bits that authorities grant and calls require.
PermBits == MAY_MINT \cup MAY_BURN \cup MAY_MANAGE_RESOURCE_FLAGS

\* authorities: empty, or badge b1 with some permissions (b2 is never a key)
AuthorityChoices ==
    {EmptyMap} \cup {[b \in {"b1"} |-> p] : p \in SUBSET PermBits}

\* authorities of badge b1 without and with the permission to manage the flags
FlagAuthorityChoices ==
    {[b \in {"b1"} |-> p] : p \in {MAY_MINT, MAY_MANAGE_RESOURCE_FLAGS}}

\* A bit of a u64 that is no resource flag.
UNRECOGNIZED_FLAG == {"bit 63"}

\* A bit of a u64 that is no resource permission.
UNRECOGNIZED_PERMISSION == {"permission bit 63"}

\* Arguments of new of which some hold a bit that is not recognized
UnrecognizedFlagChoices == {{}, MINTABLE \cup UNRECOGNIZED_FLAG}

UnrecognizedAuthorityChoices ==
    {[b \in {"b1"} |-> p] :
        p \in {MAY_MANAGE_RESOURCE_FLAGS,
               MAY_MANAGE_RESOURCE_FLAGS \cup UNRECOGNIZED_PERMISSION}}

\* The bits of the new_flags and new_mutable_flags that calls pass.
UpdateBits == MINTABLE \cup BURNABLE \cup RESTRICTED_TRANSFER \cup UNRECOGNIZED_FLAG

MutableFlagChoices == {{}, MINTABLE \cup BURNABLE, FlagBits}

ResourceTypes == {Fungible(0), NonFungible}

\* -1, 0, .., MaxAmount and the smallest positive amount, 10^-18
FungibleAmounts == {Dec(w, 0) : w \in -1..MaxAmount} \cup {Dec(0, 1)}

NonFungibleKeys == 1..NumNonFungibleKeys

Supplies ==
    {SupplyFungible(a) : a \in FungibleAmounts}
        \cup {SupplyNonFungible(keys) : keys \in SUBSET NonFungibleKeys}

\* The total supply stays within the model's range.
InRange(total) ==
    /\ total.w >= -MaxSupply /\ total.w <= MaxSupply
    /\ total.m = 0
    /\ total.f >= -MaxSupply /\ total.f <= MaxSupply

Returned(op, args, out) ==
    /\ rd_call' = [op |-> op, args |-> args]
    /\ rd_result' = out.result
    /\ rd_before' = resource_def
    /\ UNCHANGED nonResVars

call_new(resource_type, flags, mutable_flags, authorities, initial_supply) ==
    /\ resource_def = NoResourceDef
    /\ LET out == ResourceDef_new(resource_type, EmptyMap, flags, mutable_flags,
                                  authorities, initial_supply) IN
         /\ resource_def' = out.rd
         /\ Returned("new", <<resource_type, flags, mutable_flags, authorities,
                              initial_supply>>, out)

call_mint(supply, badge) ==
    /\ resource_def # NoResourceDef
    /\ LET out == mint(resource_def, supply, badge) IN
         /\ InRange(out.rd.total_supply)
         /\ resource_def' = out.rd
         /\ Returned("mint", <<supply, badge>>, out)

\* burn receives the content of a bucket that exists: a non-negative supply
\* that is burned is part of the total supply
call_burn(supply, badge) ==
    /\ resource_def # NoResourceDef
    /\ supply.type = "Fungible" /\ ~is_negative(supply.amount) =>
           ~is_negative(DecSub(resource_def.total_supply, supply.amount))
    /\ supply.type = "NonFungible" =>
           Cardinality(supply.keys) <= resource_def.total_supply.w
    /\ LET out == burn(resource_def, supply, badge) IN
         /\ InRange(out.rd.total_supply)
         /\ resource_def' = out.rd
         /\ Returned("burn", <<supply, badge>>, out)

call_update_flags(new_flags, badge) ==
    /\ resource_def # NoResourceDef
    /\ LET out == update_flags(resource_def, new_flags, badge) IN
         /\ resource_def' = out.rd
         /\ Returned("update_flags", <<new_flags, badge>>, out)

call_update_mutable_flags(new_mutable_flags, badge) ==
    /\ resource_def # NoResourceDef
    /\ LET out == update_mutable_flags(resource_def, new_mutable_flags, badge) IN
         /\ resource_def' = out.rd
         /\ Returned("update_mutable_flags", <<new_mutable_flags, badge>>, out)

call_lock_flags(flags, auth) ==
    /\ resource_def # NoResourceDef
    /\ LET out == lock_flags(resource_def, flags, auth) IN
         /\ resource_def' = out.rd
         /\ Returned("lock_flags", <<flags, auth>>, out)

call_check_permission(badge, permission) ==
    /\ resource_def # NoResourceDef
    /\ resource_def' = resource_def
    /\ Returned("check_permission", <<badge, permission>>,
                [result |-> check_permission(resource_def, badge, permission)])

call_check_burn_auth(badge) ==
    /\ resource_def # NoResourceDef
    /\ resource_def' = resource_def
    /\ Returned("check_burn_auth", <<badge>>,
                [result |-> check_burn_auth(resource_def, badge)])

ResourceDefInit ==
    /\ resource_def = NoResourceDef
    /\ rd_call = [op |-> "none", args |-> <<>>]
    /\ rd_result = "none"
    /\ rd_before = NoResourceDef

\* ResourceDef::new, then mint, burn and the permission checks
NextResourceDef ==
    \/ \E resource_type \in ResourceTypes,
          flags \in SUBSET (MINTABLE \cup BURNABLE \cup FREELY_BURNABLE),
          authorities \in AuthorityChoices,
          initial_supply \in Supplies \cup {NoSupply} :
            call_new(resource_type, flags, FlagBits, authorities, initial_supply)
    \/ \E supply \in Supplies, badge \in BadgeOpt : call_mint(supply, badge)
    \/ \E supply \in Supplies, badge \in BadgeOpt : call_burn(supply, badge)
    \/ \E badge \in BadgeOpt, permission \in SUBSET PermBits :
            call_check_permission(badge, permission)
    \/ \E badge \in BadgeOpt : call_check_burn_auth(badge)

\* ResourceDef::new, then update_flags and update_mutable_flags
NextFlags ==
    \/ \E flags \in SUBSET FlagBits, mutable_flags \in MutableFlagChoices,
          authorities \in FlagAuthorityChoices :
            call_new(Fungible(0), flags, mutable_flags, authorities, NoSupply)
    \/ \E flags \in UnrecognizedFlagChoices, mutable_flags \in UnrecognizedFlagChoices,
          authorities \in UnrecognizedAuthorityChoices :
            call_new(Fungible(0), flags, mutable_flags, authorities, NoSupply)
    \/ \E new_flags \in SUBSET UpdateBits, badge \in BadgeOpt :
            call_update_flags(new_flags, badge)
    \/ \E new_mutable_flags \in SUBSET UpdateBits, badge \in BadgeOpt :
            call_update_mutable_flags(new_mutable_flags, badge)

call_update_metadata(new_metadata, badge) ==
    /\ resource_def # NoResourceDef
    /\ LET out == update_metadata(resource_def, new_metadata, badge) IN
         /\ resource_def' = out.rd
         /\ Returned("update_metadata", <<new_metadata, badge>>, out)

\* The metadata that update_metadata is given
Metadata == {EmptyMap, [key \in {"name"} |-> "a"]}

\* authorities of badge b1 with every permission the five calls ask for,
\* and with MAY_MINT alone
AllAuthorityChoices ==
    {[b \in {"b1"} |-> p] :
        p \in {MAY_MINT,
               MAY_MINT \cup MAY_BURN \cup MAY_MANAGE_RESOURCE_FLAGS
                   \cup MAY_CHANGE_SHARED_METADATA}}

\* ResourceDef::new, then the five calls that change a ResourceDef
NextErrors ==
    \/ \E resource_type \in ResourceTypes,
          flags \in {{}, MINTABLE \cup BURNABLE \cup SHARED_METADATA_MUTABLE},
          authorities \in AllAuthorityChoices :
            call_new(resource_type, flags, MINTABLE \cup BURNABLE, authorities, NoSupply)
    \/ \E supply \in Supplies, badge \in BadgeOpt : call_mint(supply, badge)
    \/ \E supply \in Supplies, badge \in BadgeOpt : call_burn(supply, badge)
    \/ \E new_flags \in SUBSET (MINTABLE \cup RESTRICTED_TRANSFER \cup UNRECOGNIZED_FLAG),
          badge \in BadgeOpt :
            call_update_flags(new_flags \cup BURNABLE \cup SHARED_METADATA_MUTABLE, badge)
    \/ \E new_mutable_flags \in SUBSET (MINTABLE \cup RESTRICTED_TRANSFER), badge \in BadgeOpt :
            call_update_mutable_flags(new_mutable_flags, badge)
    \/ \E new_metadata \in Metadata, badge \in BadgeOpt :
            call_update_metadata(new_metadata, badge)

\* ResourceDef::new, then the guest's lock_flags
NextLock ==
    \/ \E flags \in SUBSET FlagBits, mutable_flags \in MutableFlagChoices,
          authorities \in FlagAuthorityChoices :
            call_new(Fungible(0), flags, mutable_flags, authorities, NoSupply)
    \/ \E flags \in SUBSET (MINTABLE \cup BURNABLE \cup RESTRICTED_TRANSFER),
          auth \in Badges :
            call_lock_flags(flags, auth)

(***************************************************************************)
(* Amounts against divisibilities: ResourceDef::new over the resource      *)
(* types of every divisibility a u8 argument can name up to                *)
(* MaxDivisibility, then check_amount.                                     *)
(***************************************************************************)
MaxDivisibility == 19

Divisibilities == 0..MaxDivisibility

\* The limbs below 10^9 that amounts are built from: 0, 1, 10, 10^8 and
\* 5 * 10^8 (as the middle limb, 10^8 is 0.1 and 5 * 10^8 is 0.5)
Limbs == {0, 1, 10, Pow10[8], 5 * Pow10[8]}

\* Non-negative amounts, and the negative amounts -1, -0.1 and -10^-18
DecimalAmounts ==
    {DecLimbs(w, m, f) : w \in 0..MaxAmount, m \in Limbs, f \in {0, 1, 10}}
        \cup {DecLimbs(-1, 0, 0), DecLimbs(0, -Pow10[8], 0), DecLimbs(0, 0, -1)}

call_check_amount(amount) ==
    /\ resource_def # NoResourceDef
    /\ resource_def' = resource_def
    /\ Returned("check_amount", <<amount>>,
                [result |-> check_amount(resource_def, amount)])

\* ResourceDef::new over every divisibility, then check_amount
NextAmounts ==
    \/ \E resource_type \in {Fungible(d) : d \in Divisibilities} \cup {NonFungible},
          initial_supply \in {SupplyFungible(a) : a \in DecimalAmounts}
                                \cup {SupplyNonFungible(NonFungibleKeys), NoSupply} :
            call_new(resource_type, {}, {}, EmptyMap, initial_supply)
    \/ \E amount \in DecimalAmounts : call_check_amount(amount)

(***************************************************************************)
(* Transactions on Account components.  The Account methods are those of   *)
(* assets/account/src/lib.rs.  The containers (Vault, Bucket, BucketRef),  *)
(* the worktop and the root Process that runs the instructions are outside *)
(* the sources at hand and follow sections 4.2, 4.4 and 4.5 of the         *)
(* specification.  A vault is named by the account that owns it and the    *)
(* resource it holds: Account.vaults maps a resource address to one vault. *)
(***************************************************************************)
MaxInstr == 4

Accounts == {"A", "B"}

\* Account.public_key of each account
public_key == [account \in Accounts |-> IF account = "A" THEN 1 ELSE 2]

non_fungible_key(account) == public_key[account]

\* Resource addresses: a fungible and a non-fungible resource of the store,
\* and the address a transaction's create_resource allocates.
TOKEN == "token"

NFT == "nft"

NEW_TOKEN == "new_token"

Resources == {TOKEN, NFT, NEW_TOKEN}

\* A bucket, a vault, or the snapshot of a bucket a BucketRef holds
Container(resource_address, amount, keys) ==
    [resource_address |-> resource_address, amount |-> amount, keys |-> keys]

FungibleContainer(resource_address, amount) ==
    Container(resource_address, amount, {})

NonFungibleContainer(resource_address, keys) ==
    Container(resource_address, Dec(Cardinality(keys), 0), keys)

\* Bucket::new(resource_address)
Bucket_new(resource_address) == FungibleContainer(resource_address, Dec(0, 0))

is_empty(container) == container.amount = Dec(0, 0) /\ container.keys = {}

\* put(other): matching resource address; fungibles add, non-fungibles union
\* their keys, a duplicate key is an error
Container_put(container, other) ==
    IF container.resource_address # other.resource_address
       \/ container.keys \cap other.keys # {}
    THEN [ok |-> FALSE, container |-> container]
    ELSE [ok |-> TRUE,
          container |-> Container(container.resource_address,
                                  DecAdd(container.amount, other.amount),
                                  container.keys \cup other.keys)]

\* take(amount): fungible; fails if amount > balance, on an invalid
\* granularity and on a negative amount
Container_take(rd, container, amount) ==
    IF \/ rd.resource_type.type # "Fungible"
       \/ is_negative(amount)
       \/ check_amount(rd, amount) # "Ok"
       \/ is_negative(DecSub(container.amount, amount))
    THEN [ok |-> FALSE, container |-> container,
          taken |-> Bucket_new(container.resource_address)]
    ELSE [ok |-> TRUE,
          container |-> FungibleContainer(container.resource_address,
                                          DecSub(container.amount, amount)),
          taken |-> FungibleContainer(container.resource_address, amount)]

\* take_non_fungible(key): removes that key; fails if absent
Container_take_non_fungible(container, key) ==
    IF key \notin container.keys
    THEN [ok |-> FALSE, container |-> container,
          taken |-> Bucket_new(container.resource_address)]
    ELSE [ok |-> TRUE,
          container |-> NonFungibleContainer(container.resource_address,
                                             container.keys \ {key}),
          taken |-> NonFungibleContainer(container.resource_address, {key})]

\* BucketRef::check_non_fungible_key(resource_address, f), f being equality
\* with key: the proof is of that resource and holds a key f accepts
check_non_fungible_key(bucket_ref, resource_address, key) ==
    /\ bucket_ref.resource_address = resource_address
    /\ \E k \in bucket_ref.keys : k = key

\* The badge a presented proof stands for: the address of its resource
Badge(bucket_ref) == bucket_ref.resource_address

\* The resource definitions and the vaults of the store before the
\* transaction: A holds MaxAmount tokens and every non-fungible, B holds an
\* empty token vault and no vault of the non-fungible resource.  A proof of
\* ECDSA_TOKEN is the badge that may mint and burn the token.
GenesisResourceDefs ==
    [r \in {TOKEN, NFT} |->
        IF r = TOKEN
        THEN ResourceDef_new(Fungible(0), EmptyMap, MINTABLE \cup BURNABLE, {},
                             [b \in {ECDSA_TOKEN} |-> MAY_MINT \cup MAY_BURN],
                             SupplyFungible(Dec(MaxAmount, 0))).rd
        ELSE ResourceDef_new(NonFungible, EmptyMap, {}, {}, EmptyMap,
                             SupplyNonFungible(NonFungibleKeys)).rd]

GenesisVaults ==
    [v \in {<<"A", TOKEN>>, <<"A", NFT>>, <<"B", TOKEN>>} |->
        IF v = <<"A", TOKEN>> THEN FungibleContainer(TOKEN, Dec(MaxAmount, 0))
        ELSE IF v = <<"A", NFT>> THEN NonFungibleContainer(NFT, NonFungibleKeys)
        ELSE FungibleContainer(TOKEN, Dec(0, 0))]

\* The vaults each component's state holds
GenesisComponents ==
    [c \in Accounts |-> {v \in DOMAIN GenesisVaults : v[1] = c}]

GenesisStore ==
    [vaults |-> GenesisVaults, resource_defs |-> GenesisResourceDefs,
     components |-> GenesisComponents]

NoFlow == [v \in Accounts \X Resources |-> 0]

\* Before a transaction is started
NoTransaction ==
    [ receipt |-> "none", signers |-> <<>>, vaults |-> EmptyMap,
      components |-> EmptyMap, unstored |-> {},
      resource_defs |-> EmptyMap, worktop |-> EmptyMap, buckets |-> EmptyMap,
      bucket_refs |-> EmptyMap, id_allocator |-> IdAllocator_new("Transaction"),
      call |-> [op |-> "none"], exit |-> [op |-> "none"], ninstr |-> 0,
      minted |-> {}, withdrawn |-> NoFlow, deposited |-> NoFlow ]

\* The root Process of a transaction on a fresh Track over the store: the
\* virtual ECDSA_TOKEN bucket of the signers' keys is presented as the proof
\* ECDSA_TOKEN_RID.
Process_new(store, signers) ==
    [ NoTransaction EXCEPT
        !.receipt = "pending",
        !.signers = signers,
        !.vaults = store.vaults,
        !.components = store.components,
        !.resource_defs = store.resource_defs,
        !.bucket_refs =
            [rid \in {ECDSA_TOKEN_RID} |->
                NonFungibleContainer(ECDSA_TOKEN, SignerKeys(signers))] ]

\* An error aborts the transaction
Fail(t, error) == [t EXCEPT !.receipt = error]

Failed(t) == t.receipt # "pending"

(***************************************************************************)
(* Vault operations on the Track's vaults.                                 *)
(***************************************************************************)
\* Vault::with_bucket: a new vault, not yet part of any component's state
Vault_with_bucket(t, vault, bucket) ==
    [t EXCEPT !.vaults = Insert(t.vaults, vault, bucket),
              !.unstored = t.unstored \cup {vault}]

\* The vault becomes part of the state of a component: by an insert into a
\* LazyMap of the component, or by instantiate
Component_store(t, component, vault) ==
    [t EXCEPT !.components =
                  Insert(t.components, component,
                         (IF component \in DOMAIN t.components
                          THEN t.components[component] ELSE {}) \cup {vault}),
              !.unstored = t.unstored \ {vault}]

\* Vault::put
Vault_put(t, vault, bucket) ==
    LET out == Container_put(t.vaults[vault], bucket) IN
    IF out.ok THEN [t EXCEPT !.vaults = Insert(t.vaults, vault, out.container)]
    ELSE Fail(t, "Container")

\* Vault::take_with_auth: the transaction after it and the bucket returned
Vault_take_with_auth(t, vault, amount, badge) ==
    LET rd == t.resource_defs[vault[2]]
        auth == check_take_from_vault_auth(rd, badge)
        out == Container_take(rd, t.vaults[vault], amount)
    IN
    IF auth # "Ok" THEN [tx |-> Fail(t, auth), bucket |-> out.taken]
    ELSE IF ~out.ok THEN [tx |-> Fail(t, "Container"), bucket |-> out.taken]
    ELSE [tx |-> [t EXCEPT !.vaults = Insert(t.vaults, vault, out.container)],
          bucket |-> out.taken]

\* Vault::take
Vault_take(t, vault, amount) == Vault_take_with_auth(t, vault, amount, NoBadge)

\* Vault::take_non_fungible_with_auth
Vault_take_non_fungible_with_auth(t, vault, key, badge) ==
    LET rd == t.resource_defs[vault[2]]
        auth == check_take_from_vault_auth(rd, badge)
        out == Container_take_non_fungible(t.vaults[vault], key)
    IN
    IF auth # "Ok" THEN [tx |-> Fail(t, auth), bucket |-> out.taken]
    ELSE IF ~out.ok THEN [tx |-> Fail(t, "Container"), bucket |-> out.taken]
    ELSE [tx |-> [t EXCEPT !.vaults = Insert(t.vaults, vault, out.container)],
          bucket |-> out.taken]

(***************************************************************************)
(* The Account blueprint.                                                  *)
(***************************************************************************)
\* deposit that drops the bucket
Account_deposit_drop(t, account, bucket) == t

Account_deposit(t, account, bucket) ==
    LET address == bucket.resource_address IN
    IF <<account, address>> \in DOMAIN t.vaults
    THEN Vault_put(t, <<account, address>>, bucket)
    ELSE Component_store(Vault_with_bucket(t, <<account, address>>, bucket),
                         account, <<account, address>>)

\* deposit_batch that deposits nothing
Account_deposit_batch_none(t, account, buckets) == t

RECURSIVE Account_deposit_batch(_, _, _)
Account_deposit_batch(t, account, buckets) ==
    IF buckets = <<>> \/ Failed(t) THEN t
    ELSE Account_deposit_batch(Account_deposit(t, account, Head(buckets)),
                               account, Tail(buckets))

\* withdraw without the check of account_auth
Account_withdraw_unchecked(t, account, amount, resource_address, account_auth) ==
    IF <<account, resource_address>> \in DOMAIN t.vaults
    THEN Vault_take(t, <<account, resource_address>>, amount)
    ELSE [tx |-> Fail(t, "Insufficient balance"),
          bucket |-> Bucket_new(resource_address)]

Account_withdraw(t, account, amount, resource_address, account_auth) ==
    IF ~check_non_fungible_key(account_auth, ECDSA_TOKEN, non_fungible_key(account))
    THEN [tx |-> Fail(t, "Authority"), bucket |-> Bucket_new(resource_address)]
    ELSE IF <<account, resource_address>> \in DOMAIN t.vaults
    THEN Vault_take(t, <<account, resource_address>>, amount)
    ELSE [tx |-> Fail(t, "Insufficient balance"),
          bucket |-> Bucket_new(resource_address)]

Account_withdraw_with_auth(t, account, amount, resource_address, auth, account_auth) ==
    IF ~check_non_fungible_key(account_auth, ECDSA_TOKEN, non_fungible_key(account))
    THEN [tx |-> Fail(t, "Authority"), bucket |-> Bucket_new(resource_address)]
    ELSE IF <<account, resource_address>> \in DOMAIN t.vaults
    THEN Vault_take_with_auth(t, <<account, resource_address>>, amount, Badge(auth))
    ELSE [tx |-> Fail(t, "Insufficient balance"),
          bucket |-> Bucket_new(resource_address)]

\* The loop of withdraw_non_fungibles that leaves the keys in the vault
TakeNonFungibles_keep(t, vault, bucket, keys, badge) ==
    IF keys \subseteq t.vaults[vault].keys
    THEN [tx |-> t, bucket |-> NonFungibleContainer(bucket.resource_address, keys)]
    ELSE [tx |-> Fail(t, "Container"), bucket |-> bucket]

\* The loop of withdraw_non_fungibles: each key is taken from the vault and
\* put into the bucket.
RECURSIVE TakeNonFungibles(_, _, _, _, _)
TakeNonFungibles(t, vault, bucket, keys, badge) ==
    IF keys = {} \/ Failed(t) THEN [tx |-> t, bucket |-> bucket]
    ELSE LET key == CHOOSE k \in keys : \A other \in keys : k <= other
             out == Vault_take_non_fungible_with_auth(t, vault, key, badge)
             put == Container_put(bucket, out.bucket)
         IN
         IF Failed(out.tx) THEN [tx |-> out.tx, bucket |-> bucket]
         ELSE IF ~put.ok THEN [tx |-> Fail(out.tx, "Container"), bucket |-> bucket]
         ELSE TakeNonFungibles(out.tx, vault, put.container, keys \ {key}, badge)

Account_withdraw_non_fungibles(t, account, keys, resource_address, account_auth) ==
    IF ~check_non_fungible_key(account_auth, ECDSA_TOKEN, non_fungible_key(account))
    THEN [tx |-> Fail(t, "Authority"), bucket |-> Bucket_new(resource_address)]
    ELSE IF <<account, resource_address>> \in DOMAIN t.vaults
    THEN TakeNonFungibles(t, <<account, resource_address>>,
                          Bucket_new(resource_address), keys, NoBadge)
    ELSE [tx |-> Fail(t, "Insufficient balance"),
          bucket |-> Bucket_new(resource_address)]

Account_withdraw_non_fungibles_with_auth(t, account, keys, resource_address, auth, account_auth) ==
    IF ~check_non_fungible_key(account_auth, ECDSA_TOKEN, non_fungible_key(account))
    THEN [tx |-> Fail(t, "Authority"), bucket |-> Bucket_new(resource_address)]
    ELSE IF <<account, resource_address>> \in DOMAIN t.vaults
    THEN TakeNonFungibles(t, <<account, resource_address>>,
                          Bucket_new(resource_address), keys, Badge(auth))
    ELSE [tx |-> Fail(t, "Insufficient balance"),
          bucket |-> Bucket_new(resource_address)]

(***************************************************************************)
(* The VaultTest blueprint (tests/vault/src/vault.rs).                     *)
(***************************************************************************)
VAULT_TEST == "VaultTest"

\* ResourceBuilder::new_fungible(DIVISIBILITY_MAXIMUM)
\*     .initial_supply_fungible(1): the transaction after it and the bucket
TestToken(t) ==
    LET out == ResourceDef_new(Fungible(18), EmptyMap, {}, {}, EmptyMap,
                               SupplyFungible(Dec(1, 0))) IN
    IF out.result # "Ok"
    THEN [tx |-> Fail(t, out.result), bucket |-> Bucket_new(NEW_TOKEN)]
    ELSE [tx |-> [t EXCEPT !.resource_defs = Insert(t.resource_defs, NEW_TOKEN, out.rd),
                           !.minted = t.minted \cup {NEW_TOKEN}],
          bucket |-> FungibleContainer(NEW_TOKEN, Dec(1, 0))]

\* dangling_vault that instantiates a component holding the vault
VaultTest_dangling_vault_stored(t) ==
    LET made == TestToken(t) IN
    IF Failed(made.tx) THEN made.tx
    ELSE Component_store(Vault_with_bucket(made.tx, <<VAULT_TEST, NEW_TOKEN>>, made.bucket),
                         VAULT_TEST, <<VAULT_TEST, NEW_TOKEN>>)

VaultTest_dangling_vault(t) ==
    LET made == TestToken(t) IN
    IF Failed(made.tx) THEN made.tx
    ELSE Vault_with_bucket(made.tx, <<VAULT_TEST, NEW_TOKEN>>, made.bucket)

\* new_vault_with_take that does not put back the bucket it took
VaultTest_new_vault_with_take_kept(t) ==
    LET made == TestToken(t)
        vault == <<VAULT_TEST, NEW_TOKEN>>
        with == Vault_with_bucket(made.tx, vault, made.bucket)
        taken == Vault_take(with, vault, Dec(1, 0))
    IN
    IF Failed(made.tx) THEN made.tx
    ELSE IF Failed(taken.tx) THEN taken.tx
    ELSE Component_store(taken.tx, VAULT_TEST, vault)

VaultTest_new_vault_with_take(t) ==
    LET made == TestToken(t)
        vault == <<VAULT_TEST, NEW_TOKEN>>
        with == Vault_with_bucket(made.tx, vault, made.bucket)
        taken == Vault_take(with, vault, Dec(1, 0))
    IN
    IF Failed(made.tx) THEN made.tx
    ELSE IF Failed(taken.tx) THEN taken.tx
    ELSE Component_store(Vault_put(taken.tx, vault, taken.bucket), VAULT_TEST, vault)

(***************************************************************************)
(* The instructions of the root Process.                                   *)
(***************************************************************************)
\* The worktop with a bucket returned to it; an empty entry is not kept
Worktop_put(t, bucket) ==
    LET address == bucket.resource_address
        out == IF address \in DOMAIN t.worktop
               THEN Container_put(t.worktop[address], bucket)
               ELSE [ok |-> TRUE, container |-> bucket]
        worktop == Insert(t.worktop, address, out.container)
    IN
    IF ~out.ok THEN Fail(t, "Container")
    ELSE [t EXCEPT !.worktop =
              [r \in {x \in DOMAIN worktop : ~is_empty(worktop[x])} |-> worktop[r]]]

\* A bucket entered into the frame's bucket table under a fresh Bid
Bucket_add(t, bucket) ==
    IF ~HasNext(t.id_allocator) THEN Fail(t, "OutOfID")
    ELSE [t EXCEPT !.buckets = Insert(t.buckets, NextId(t.id_allocator), bucket),
                   !.id_allocator = AfterNext(t.id_allocator)]

Bucket_remove(t, bid) ==
    [t EXCEPT !.buckets = [b \in DOMAIN t.buckets \ {bid} |-> t.buckets[b]]]

Withdrawn(t, account, bucket) ==
    [t EXCEPT !.withdrawn[<<account, bucket.resource_address>>] = @ + bucket.amount.w]

Deposited(t, account, bucket) ==
    [t EXCEPT !.deposited[<<account, bucket.resource_address>>] = @ + bucket.amount.w]

RECURSIVE DepositedAll(_, _, _)
DepositedAll(t, account, buckets) ==
    IF buckets = <<>> THEN t
    ELSE DepositedAll(Deposited(t, account, Head(buckets)), account, Tail(buckets))

\* The buckets of the worktop, as the Vec passed to deposit_batch
RECURSIVE WorktopBuckets(_, _)
WorktopBuckets(worktop, addresses) ==
    IF addresses = {} THEN <<>>
    ELSE LET r == CHOOSE x \in addresses : TRUE
         IN <<worktop[r]>> \o WorktopBuckets(worktop, addresses \ {r})

Running == tx.receipt = "pending" /\ tx.ninstr < MaxInstr

\* The exit of the frame of a call: a vault it made that is in no
\* component's state aborts the transaction
FrameExit(t) ==
    IF ~Failed(t) /\ t.unstored # {} THEN Fail(t, "Lifecycle") ELSE t

\* The instruction has run: it is counted, or the transaction is aborted
\* and the Track with all it staged is discarded.
Executed(t, call) ==
    /\ tx' = IF Failed(FrameExit(t))
             THEN [Process_new(substate_store, tx.signers) EXCEPT
                      !.receipt = FrameExit(t).receipt, !.call = call]
             ELSE [t EXCEPT !.call = call, !.ninstr = tx.ninstr + 1]
    /\ UNCHANGED <<substate_store, nonTxVars>>

start_transaction(signers) ==
    /\ tx.receipt = "none"
    /\ tx' = Process_new(substate_store, signers)
    /\ UNCHANGED <<substate_store, nonTxVars>>

\* What a call that returned a bucket leaves: the bucket on the worktop
AfterWithdraw(out, account) ==
    IF Failed(out.tx) THEN out.tx
    ELSE Worktop_put(Withdrawn(out.tx, account, out.bucket), out.bucket)

call_withdraw(account, amount, resource_address, rid) ==
    /\ Running
    /\ Executed(AfterWithdraw(Account_withdraw(tx, account, amount, resource_address,
                                               tx.bucket_refs[rid]), account),
                [op |-> "withdraw", account |-> account, amount |-> amount,
                 resource_address |-> resource_address,
                 account_auth |-> tx.bucket_refs[rid]])

call_withdraw_with_auth(account, amount, resource_address, auth, rid) ==
    /\ Running
    /\ Executed(AfterWithdraw(Account_withdraw_with_auth(tx, account, amount,
                                  resource_address, tx.bucket_refs[auth],
                                  tx.bucket_refs[rid]), account),
                [op |-> "withdraw_with_auth", account |-> account, amount |-> amount,
                 resource_address |-> resource_address,
                 auth |-> tx.bucket_refs[auth],
                 account_auth |-> tx.bucket_refs[rid]])

call_withdraw_non_fungibles(account, keys, resource_address, rid) ==
    /\ Running
    /\ Executed(AfterWithdraw(Account_withdraw_non_fungibles(tx, account, keys,
                                  resource_address, tx.bucket_refs[rid]), account),
                [op |-> "withdraw_non_fungibles", account |-> account, keys |-> keys,
                 resource_address |-> resource_address,
                 account_auth |-> tx.bucket_refs[rid]])

call_withdraw_non_fungibles_with_auth(account, keys, resource_address, auth, rid) ==
    /\ Running
    /\ Executed(AfterWithdraw(Account_withdraw_non_fungibles_with_auth(tx, account,
                                  keys, resource_address, tx.bucket_refs[auth],
                                  tx.bucket_refs[rid]), account),
                [op |-> "withdraw_non_fungibles_with_auth", account |-> account,
                 keys |-> keys, resource_address |-> resource_address,
                 account_auth |-> tx.bucket_refs[rid]])

\* CallMethod(account, "deposit", bid): the bucket moves to the callee
call_deposit(account, bid) ==
    /\ Running
    /\ bid \in DOMAIN tx.buckets
    /\ LET bucket == tx.buckets[bid] IN
       Executed(Deposited(Account_deposit(Bucket_remove(tx, bid), account, bucket),
                          account, bucket),
                [op |-> "deposit", account |-> account, bid |-> bid])

\* CallMethodWithAllResources(account, "deposit_batch"): every bucket of the
\* worktop moves to the callee
call_deposit_batch(account) ==
    /\ Running
    /\ LET buckets == WorktopBuckets(tx.worktop, DOMAIN tx.worktop) IN
       Executed(DepositedAll(Account_deposit_batch([tx EXCEPT !.worktop = EmptyMap],
                                                   account, buckets),
                             account, buckets),
                [op |-> "deposit_batch", account |-> account])

TakeFromWorktop(amount, resource_address) ==
    /\ Running
    /\ resource_address \in DOMAIN tx.worktop
    /\ LET out == Container_take(tx.resource_defs[resource_address],
                                 tx.worktop[resource_address], amount)
           rest == [tx EXCEPT !.worktop =
                       [r \in DOMAIN tx.worktop \ {resource_address} |-> tx.worktop[r]]]
       IN
       Executed(IF out.ok THEN Bucket_add(Worktop_put(rest, out.container), out.taken)
                ELSE Fail(tx, "Container"),
                [op |-> "TakeFromWorktop", amount |-> amount,
                 resource_address |-> resource_address])

TakeAllFromWorktop(resource_address) ==
    /\ Running
    /\ resource_address \in DOMAIN tx.worktop
    /\ Executed(Bucket_add([tx EXCEPT !.worktop =
                               [r \in DOMAIN tx.worktop \ {resource_address} |->
                                    tx.worktop[r]]],
                           tx.worktop[resource_address]),
                [op |-> "TakeAllFromWorktop", resource_address |-> resource_address])

ReturnToWorktop(bid) ==
    /\ Running
    /\ bid \in DOMAIN tx.buckets
    /\ Executed(Worktop_put(Bucket_remove(tx, bid), tx.buckets[bid]),
                [op |-> "ReturnToWorktop", bid |-> bid])

\* CreateBucketRef(bid): a proof holding a snapshot of the bucket
CreateBucketRef(bid) ==
    /\ Running
    /\ bid \in DOMAIN tx.buckets
    /\ Executed(IF ~HasNext(tx.id_allocator) THEN Fail(tx, "OutOfID")
                ELSE [tx EXCEPT !.bucket_refs = Insert(tx.bucket_refs,
                                      NextId(tx.id_allocator), tx.buckets[bid]),
                                !.id_allocator = AfterNext(tx.id_allocator)],
                [op |-> "CreateBucketRef", bid |-> bid])

\* A call of a function that creates a fungible resource with an initial
\* supply and returns the bucket of it
create_resource(amount) ==
    /\ Running
    /\ NEW_TOKEN \notin DOMAIN tx.resource_defs
    /\ LET out == ResourceDef_new(Fungible(0), EmptyMap, {}, {}, EmptyMap,
                                  SupplyFungible(amount)) IN
       Executed(IF out.result # "Ok" THEN Fail(tx, out.result)
                ELSE Worktop_put([tx EXCEPT
                         !.resource_defs = Insert(tx.resource_defs, NEW_TOKEN, out.rd),
                         !.minted = tx.minted \cup {NEW_TOKEN}],
                         FungibleContainer(NEW_TOKEN, amount)),
                [op |-> "create_resource", amount |-> amount])

\* A call of a function that mints and returns the bucket minted
mint_resource(amount, resource_address, auth) ==
    /\ Running
    /\ LET out == mint(tx.resource_defs[resource_address], SupplyFungible(amount),
                       Badge(tx.bucket_refs[auth])) IN
       Executed(IF out.result # "Ok" THEN Fail(tx, out.result)
                ELSE Worktop_put([tx EXCEPT
                         !.resource_defs = Insert(tx.resource_defs, resource_address, out.rd),
                         !.minted = tx.minted \cup {resource_address}],
                         FungibleContainer(resource_address, amount)),
                [op |-> "mint_resource", amount |-> amount,
                 resource_address |-> resource_address])

\* A call of a function that burns the bucket passed to it
burn_resource(bid, auth) ==
    /\ Running
    /\ bid \in DOMAIN tx.buckets
    /\ LET bucket == tx.buckets[bid]
           address == bucket.resource_address
           supply == IF tx.resource_defs[address].resource_type.type = "Fungible"
                     THEN SupplyFungible(bucket.amount)
                     ELSE SupplyNonFungible(bucket.keys)
           out == burn(tx.resource_defs[address], supply, Badge(tx.bucket_refs[auth]))
       IN
       Executed(IF out.result # "Ok" THEN Fail(tx, out.result)
                ELSE [Bucket_remove(tx, bid) EXCEPT
                         !.resource_defs = Insert(tx.resource_defs, address, out.rd),
                         !.minted = tx.minted \cup {address}],
                [op |-> "burn_resource", bid |-> bid])

\* CallFunction(VaultTest, "dangling_vault")
call_dangling_vault ==
    /\ Running
    /\ NEW_TOKEN \notin DOMAIN tx.resource_defs
    /\ Executed(VaultTest_dangling_vault(tx), [op |-> "dangling_vault"])

\* CallFunction(VaultTest, "new_vault_with_take")
call_new_vault_with_take ==
    /\ Running
    /\ NEW_TOKEN \notin DOMAIN tx.resource_defs
    /\ Executed(VaultTest_new_vault_with_take(tx), [op |-> "new_vault_with_take"])

\* The end of the instructions: the root frame exits.  A bucket left in its
\* table or on the worktop aborts the transaction, else the Track commits
\* what it staged.
end_transaction ==
    /\ tx.receipt = "pending"
    /\ LET exit == [op |-> "exit", buckets |-> DOMAIN tx.buckets,
                    worktop |-> DOMAIN tx.worktop]
           ok == tx.buckets = EmptyMap /\ tx.worktop = EmptyMap
       IN
       /\ tx' = IF ok THEN [tx EXCEPT !.receipt = "Ok", !.exit = exit]
                ELSE [Process_new(substate_store, tx.signers) EXCEPT
                         !.receipt = "Lifecycle", !.call = tx.call, !.exit = exit]
       /\ substate_store' =
              IF ok THEN [vaults |-> tx.vaults, resource_defs |-> tx.resource_defs,
                          components |-> tx.components]
              ELSE substate_store
    /\ UNCHANGED nonTxVars

TxInit ==
    /\ substate_store = GenesisStore
    /\ tx = NoTransaction

\* The signers of a transaction: one key, or two
TxSigners == {<<k>> : k \in PublicKeys} \cup {<<1, 2>>}

TakeAmounts == {Dec(w, 0) : w \in 0..(MaxAmount + 1)}

MintAmounts == {Dec(-1, 0), Dec(1, 0)}

NextTx ==
    \/ \E signers \in TxSigners : start_transaction(signers)
    \/ \E account \in Accounts, amount \in TakeAmounts,
          rid \in DOMAIN tx.bucket_refs :
            call_withdraw(account, amount, TOKEN, rid)
    \/ \E account \in Accounts, amount \in TakeAmounts,
          auth \in DOMAIN tx.bucket_refs, rid \in DOMAIN tx.bucket_refs :
            call_withdraw_with_auth(account, amount, TOKEN, auth, rid)
    \/ \E account \in Accounts, keys \in SUBSET NonFungibleKeys,
          rid \in DOMAIN tx.bucket_refs :
            call_withdraw_non_fungibles(account, keys, NFT, rid)
    \/ \E account \in Accounts, keys \in SUBSET NonFungibleKeys,
          auth \in DOMAIN tx.bucket_refs, rid \in DOMAIN tx.bucket_refs :
            call_withdraw_non_fungibles_with_auth(account, keys, NFT, auth, rid)
    \/ \E account \in Accounts, bid \in DOMAIN tx.buckets : call_deposit(account, bid)
    \/ \E account \in Accounts : call_deposit_batch(account)
    \/ \E amount \in TakeAmounts, resource_address \in {TOKEN, NEW_TOKEN} :
            TakeFromWorktop(amount, resource_address)
    \/ \E resource_address \in Resources : TakeAllFromWorktop(resource_address)
    \/ \E bid \in DOMAIN tx.buckets : ReturnToWorktop(bid)
    \/ \E bid \in DOMAIN tx.buckets : CreateBucketRef(bid)
    \/ \E amount \in MintAmounts : create_resource(amount)
    \/ \E amount \in MintAmounts, auth \in DOMAIN tx.bucket_refs :
            mint_resource(amount, TOKEN, auth)
    \/ \E bid \in DOMAIN tx.buckets, auth \in DOMAIN tx.bucket_refs :
            burn_resource(bid, auth)
    \/ call_dangling_vault
    \/ call_new_vault_with_take
    \/ end_transaction

(***************************************************************************)
(* Transactions on a store whose token may be under RESTRICTED_TRANSFER:   *)
(* a proof of the non-fungible resource is the badge of its authorities.   *)
(***************************************************************************)
TransferAuthorityChoices ==
    {[b \in {ECDSA_TOKEN, NFT} |->
        IF b = NFT THEN p ELSE MAY_MINT \cup MAY_BURN] : p \in {MAY_TRANSFER, MAY_MINT}}
        \cup {[b \in {ECDSA_TOKEN} |-> MAY_MINT \cup MAY_BURN]}

\* The store before the transaction, with the token made under
\* RESTRICTED_TRANSFER and the authorities given
genesis_restricted(authorities) ==
    /\ tx.receipt = "none"
    /\ substate_store = GenesisStore
    /\ substate_store' =
          [GenesisStore EXCEPT !.resource_defs[TOKEN] =
              ResourceDef_new(Fungible(0), EmptyMap,
                              MINTABLE \cup BURNABLE \cup RESTRICTED_TRANSFER, {},
                              authorities, SupplyFungible(Dec(MaxAmount, 0))).rd]
    /\ UNCHANGED <<tx, nonTxVars>>

NextTransfer ==
    \/ \E authorities \in TransferAuthorityChoices : genesis_restricted(authorities)
    \/ \E signers \in TxSigners : start_transaction(signers)
    \/ \E account \in Accounts, amount \in TakeAmounts,
          rid \in DOMAIN tx.bucket_refs :
            call_withdraw(account, amount, TOKEN, rid)
    \/ \E account \in Accounts, amount \in TakeAmounts,
          auth \in DOMAIN tx.bucket_refs, rid \in DOMAIN tx.bucket_refs :
            call_withdraw_with_auth(account, amount, TOKEN, auth, rid)
    \/ \E account \in Accounts, keys \in SUBSET NonFungibleKeys,
          rid \in DOMAIN tx.bucket_refs :
            call_withdraw_non_fungibles(account, keys, NFT, rid)
    \/ TakeAllFromWorktop(NFT)
    \/ \E bid \in DOMAIN tx.buckets : ReturnToWorktop(bid)
    \/ \E bid \in DOMAIN tx.buckets : CreateBucketRef(bid)
    \/ \E account \in Accounts : call_deposit_batch(account)
    \/ end_transaction

(***************************************************************************)
(* Transactions on a store where account A holds the non-fungibles         *)
(* 1..NumHeldKeys.                                                         *)
(***************************************************************************)
NumHeldKeys == 3

HeldKeys == 1..NumHeldKeys

\* The store before the transaction, after create_non_fungible_fixed and
\* the deposit of its keys into A
genesis_non_fungibles ==
    /\ tx.receipt = "none"
    /\ substate_store = GenesisStore
    /\ substate_store' =
          [GenesisStore EXCEPT
              !.resource_defs[NFT] =
                  ResourceDef_new(NonFungible, EmptyMap, {}, {}, EmptyMap,
                                  SupplyNonFungible(HeldKeys)).rd,
              !.vaults[<<"A", NFT>>] = NonFungibleContainer(NFT, HeldKeys)]
    /\ UNCHANGED <<tx, nonTxVars>>

NextNonFungible ==
    \/ genesis_non_fungibles
    \/ \E signers \in TxSigners : start_transaction(signers)
    \/ \E account \in Accounts, keys \in SUBSET HeldKeys,
          rid \in DOMAIN tx.bucket_refs :
            call_withdraw_non_fungibles(account, keys, NFT, rid)
    \/ \E account \in Accounts, bid \in DOMAIN tx.buckets : call_deposit(account, bid)
    \/ \E account \in Accounts : call_deposit_batch(account)
    \/ TakeAllFromWorktop(NFT)
    \/ \E bid \in DOMAIN tx.buckets : ReturnToWorktop(bid)
    \/ end_transaction

(***************************************************************************)
(* Calls on an IdAllocator.  Two allocators of the same id space receive   *)
(* the same calls with the same transaction hash.                          *)
(***************************************************************************)
MaxCalls == 3
MaxLeft == 2
NumHashes == 2

IdSpaces == {"System", "Transaction", "Application"}

IdKinds == {"Package", "Component", "ResourceDef", "Uuid", "Bid", "Rid", "Vid", "Mid"}

Hashes == 1..NumHashes

\* Err(IdAllocatorError::OutOfID)
OutOfID == <<"OutOfID">>

\* IdAllocator::next that returns the cursor without moving it
IdAllocator_next_reissue(available) ==
    [result |-> "Ok", id |-> available.start, available |-> available]

\* IdAllocator::next that goes on past the end of the range
IdAllocator_next_unbounded(available) ==
    IF available.start < U32_MAX
    THEN [result |-> "Ok", id |-> available.start, available |-> AfterNext(available)]
    ELSE [result |-> "OutOfID", id |-> None, available |-> available]

IdAllocator_next(available) ==
    IF HasNext(available)
    THEN [result |-> "Ok", id |-> NextId(available), available |-> AfterNext(available)]
    ELSE [result |-> "OutOfID", id |-> None, available |-> available]

\* What a call of a kind returns for a counter: the hash of the transaction
\* hash and the counter under the variant of an address, the low 16 bytes of
\* that hash for a UUID, the counter for a Bid or Rid, and the transaction
\* hash with the counter for a Vid or Mid.
IdValue(kind, transaction_hash, counter) ==
    CASE kind \in {"Package", "Component", "ResourceDef"} ->
             Address(kind, transaction_hash, counter)
      [] kind = "Uuid" -> <<"Uuid", transaction_hash, counter>>
      [] kind \in {"Bid", "Rid"} -> <<kind, counter>>
      [] kind \in {"Vid", "Mid"} -> <<kind, transaction_hash, counter>>

\* new_* that leaves the transaction hash out of what it returns
IdAllocator_call_no_hash(available, kind, transaction_hash) ==
    LET out == IdAllocator_next(available) IN
    [result |-> IF out.result = "Ok" THEN <<kind, out.id>> ELSE OutOfID,
     id |-> out.id, available |-> out.available]

\* new_package_address, new_component_address, new_resource_address,
\* new_uuid, new_bid, new_rid, new_vid, new_mid
IdAllocator_call(available, kind, transaction_hash) ==
    LET out == IdAllocator_next(available) IN
    [result |-> IF out.result = "Ok" THEN IdValue(kind, transaction_hash, out.id)
                ELSE OutOfID,
     id |-> out.id, available |-> out.available]

NoIds ==
    [ space |-> "none", hash |-> None,
      allocator |-> [start |-> U32(0), end |-> U32(0)],
      twin |-> [start |-> U32(0), end |-> U32(0)],
      start |-> U32(0), before |-> [start |-> U32(0), end |-> U32(0)],
      calls |-> 0, kind |-> "none", result |-> <<"none">>, twin_result |-> <<"none">>,
      issued |-> <<>> ]

\* IdAllocator::new(kind), twice
id_new(kind, transaction_hash) ==
    /\ ids.space = "none"
    /\ ids' = [NoIds EXCEPT !.space = kind, !.hash = transaction_hash,
                            !.allocator = IdAllocator_new(kind),
                            !.twin = IdAllocator_new(kind),
                            !.start = IdAllocator_new(kind).start,
                            !.before = IdAllocator_new(kind)]
    /\ UNCHANGED nonIdVars

\* The two allocators after as many calls as leave `left` counters of the
\* range: what every call of such a run does to the cursor is what id_call
\* does, and the run is too long to be taken call by call.
id_run(left) ==
    /\ ids.space # "none"
    /\ ids.calls = 0
    /\ ids.allocator.start = IdAllocator_new(ids.space).start
    /\ LET available == [ids.allocator EXCEPT !.start = ids.allocator.end - left] IN
       ids' = [ids EXCEPT !.allocator = available, !.twin = available,
                          !.start = available.start, !.before = available]
    /\ UNCHANGED nonIdVars

\* One allocation call, made on both allocators
id_call(kind) ==
    /\ ids.space # "none"
    /\ ids.calls < MaxCalls
    /\ LET out == IdAllocator_call(ids.allocator, kind, ids.hash)
           twin == IdAllocator_call(ids.twin, kind, ids.hash)
       IN
       ids' = [ids EXCEPT !.allocator = out.available,
                          !.twin = twin.available,
                          !.before = ids.allocator,
                          !.calls = ids.calls + 1,
                          !.kind = kind,
                          !.result = out.result,
                          !.twin_result = twin.result,
                          !.issued = IF out.result = OutOfID THEN ids.issued
                                     ELSE Append(ids.issued,
                                                 [kind |-> kind, counter |-> out.id,
                                                  call |-> ids.calls + 1])]
    /\ UNCHANGED nonIdVars

IdInit == ids = NoIds

NextIds ==
    \/ \E kind \in IdSpaces, transaction_hash \in Hashes : id_new(kind, transaction_hash)
    \/ \E left \in 0..MaxLeft : id_run(left)
    \/ \E kind \in IdKinds : id_call(kind)

\* A store that holds key 1 of every kind and no other key.
InitLedger == [kind \in Kinds |-> [k \in {1} |-> 1]]

TrackInit ==
    /\ ledger = InitLedger
    /\ track = Track_new(1, <<1, 2, 1>>)
    /\ phase = "live"
    /\ ret = None
    /\ process = NoProcess
    /\ ledger_at_new = ledger
    /\ written = [kind \in Kinds |-> EmptyMap]
    /\ nops = 0

Next ==
    \/ \E k \in Keys : get_package(k)
    \/ \E k \in Keys, w \in Vals : get_package_mut(k, w)
    \/ \E k \in Keys, v \in Vals : put_package(k, v)
    \/ \E k \in Keys : get_component(k)
    \/ \E k \in Keys, w \in Vals : get_component_mut(k, w)
    \/ \E k \in Keys, v \in Vals : put_component(k, v)
    \/ \E k \in Keys : get_non_fungible(k)
    \/ \E k \in Keys, w \in Vals : get_non_fungible_mut(k, w)
    \/ \E k \in Keys, v \in Vals : put_non_fungible(k, v)
    \/ \E k \in Keys : get_lazy_map(k)
    \/ \E k \in Keys, w \in Vals : get_lazy_map_mut(k, w)
    \/ \E k \in Keys, v \in Vals : put_lazy_map(k, v)
    \/ \E k \in Keys : get_resource_def(k)
    \/ \E k \in Keys, w \in Vals : get_resource_def_mut(k, w)
    \/ \E k \in Keys, v \in Vals : put_resource_def(k, v)
    \/ \E k \in Keys, w \in Vals : get_vault_mut(k, w)
    \/ \E k \in Keys, v \in Vals : put_vault(k, v)
    \/ add_log("Info", "m")
    \/ new_package_address
    \/ new_component_address
    \/ new_resource_address
    \/ new_uuid
    \/ new_bid
    \/ new_vid
    \/ new_rid
    \/ new_mid
    \/ start_process
    \/ commit_ok
    \/ commit_panic
    \/ drop_track

\* Track::new(ledger, transaction_hash, transaction_signers) on the store
new_track(transaction_hash, transaction_signers) ==
    /\ phase = "live"
    /\ nops = 0
    /\ process = NoProcess
    /\ track = Track_new(1, <<1, 2, 1>>)
    /\ track' = Track_new(transaction_hash, transaction_signers)
    /\ UNCHANGED <<ledger, phase, ret, process, ledger_at_new, written, nops, nonTrackVars>>

\* A Track of any signers, its allocations and logs, and start_process
NextProcess ==
    \/ \E transaction_hash \in Hashes, transaction_signers \in SignerLists :
            new_track(transaction_hash, transaction_signers)
    \/ add_log("Info", "m")
    \/ new_package_address
    \/ new_component_address
    \/ new_resource_address
    \/ new_uuid
    \/ new_bid
    \/ new_rid
    \/ new_vid
    \/ new_mid
    \/ start_process

(***************************************************************************)
(* Address (scrypto/src/types/address.rs): the bytes and the hex string of *)
(* an address.  A byte is a number of 0..255, a slice a sequence of bytes, *)
(* a string a sequence of characters.                                      *)
(***************************************************************************)
NumBytes == 3

\* The bytes that slices and bodies are made of: 0..NumBytes and 255
ByteChoices == 0..NumBytes \cup {255}

\* [u8; 26]
ADDRESS_BODY_LENGTH == 26

\* Bodies whose bytes are all fill but the last
Bodies ==
    {[i \in 1..ADDRESS_BODY_LENGTH |-> IF i = ADDRESS_BODY_LENGTH THEN last ELSE fill] :
        fill \in ByteChoices, last \in ByteChoices}

ParsedAddress(variant, d) == [variant |-> variant, d |-> d]

Addresses ==
    {ParsedAddress(variant, d) : variant \in {"Package", "Component", "ResourceDef"},
                                 d \in Bodies}

\* combine(tag, d): the tag byte followed by the bytes of d
combine(tag, d) == <<tag>> \o d

\* copy_u8_array(slice): the array that holds the bytes of the slice
copy_u8_array(slice) == [i \in 1..Len(slice) |-> slice[i]]

\* to_vec with the tags 0, 1, 2
Address_to_vec_from_zero(a) ==
    IF a.variant = "Package" THEN combine(0, a.d)
    ELSE IF a.variant = "Component" THEN combine(1, a.d)
    ELSE combine(2, a.d)

Address_to_vec(a) ==
    IF a.variant = "Package" THEN combine(1, a.d)
    ELSE IF a.variant = "Component" THEN combine(2, a.d)
    ELSE combine(3, a.d)

ParseOk(a) == [result |-> "Ok", address |-> a]

ParseErr(error, detail) == [result |-> error, detail |-> detail]

\* TryFrom<&[u8]> for Address
Address_try_from(slice) ==
    IF Len(slice) = 27
    THEN IF slice[1] = 1
         THEN ParseOk(ParsedAddress("Package", copy_u8_array(SubSeq(slice, 2, 27))))
         ELSE IF slice[1] = 2
         THEN ParseOk(ParsedAddress("Component", copy_u8_array(SubSeq(slice, 2, 27))))
         ELSE IF slice[1] = 3
         THEN ParseOk(ParsedAddress("ResourceDef", copy_u8_array(SubSeq(slice, 2, 27))))
         ELSE ParseErr("InvalidType", slice[1])
    ELSE ParseErr("InvalidLength", Len(slice))

\* The digits hex::encode writes, and the value of each character
\* hex::decode reads: the digits in either case
HexDigits == <<"0", "1", "2", "3", "4", "5", "6", "7", "8", "9",
               "a", "b", "c", "d", "e", "f">>

UpperHexDigits == <<"0", "1", "2", "3", "4", "5", "6", "7", "8", "9",
                    "A", "B", "C", "D", "E", "F">>

HexCharacters == {HexDigits[i] : i \in 1..16} \cup {UpperHexDigits[i] : i \in 1..16}

HexValue(c) ==
    (CHOOSE i \in 1..16 : HexDigits[i] = c \/ UpperHexDigits[i] = c) - 1

\* hex::encode
hex_encode(bytes) ==
    [j \in 1..(2 * Len(bytes)) |->
        IF j % 2 = 1 THEN HexDigits[(bytes[(j + 1) \div 2] \div 16) + 1]
        ELSE HexDigits[(bytes[j \div 2] % 16) + 1]]

\* hex::decode: an odd length and a character that is no hex digit are errors
hex_decode(str) ==
    IF Len(str) % 2 = 1 THEN [ok |-> FALSE, bytes |-> <<>>]
    ELSE IF \E i \in 1..Len(str) : str[i] \notin HexCharacters
    THEN [ok |-> FALSE, bytes |-> <<>>]
    ELSE [ok |-> TRUE,
          bytes |-> [i \in 1..(Len(str) \div 2) |->
                        16 * HexValue(str[2 * i - 1]) + HexValue(str[2 * i])]]

\* FromStr for Address
Address_from_str(str) ==
    IF ~hex_decode(str).ok THEN ParseErr("InvalidHex", 0)
    ELSE Address_try_from(hex_decode(str).bytes)

\* Display for Address
Address_to_string(a) == hex_encode(Address_to_vec(a))

\* The slices that try_from is given: a tag and a body, and those slices
\* without their last byte or with one byte more
Slices ==
    LET full == {combine(tag, d) : tag \in ByteChoices, d \in Bodies} IN
    full \cup {SubSeq(slice, 1, 26) : slice \in full}
         \cup {slice \o <<0>> : slice \in full}
         \cup {<<>>}

\* The string in upper case
ToUpper(str) ==
    [i \in 1..Len(str) |->
        IF \E k \in 1..16 : HexDigits[k] = str[i]
        THEN UpperHexDigits[CHOOSE k \in 1..16 : HexDigits[k] = str[i]]
        ELSE str[i]]

ToLower(str) ==
    [i \in 1..Len(str) |->
        IF \E k \in 1..16 : UpperHexDigits[k] = str[i]
        THEN HexDigits[CHOOSE k \in 1..16 : UpperHexDigits[k] = str[i]]
        ELSE str[i]]

\* The strings that from_str is given: the hex of slices of 27 bytes in
\* lower and in upper case, such a string without its last character, and
\* with a first character that is no hex digit
HexStrings ==
    LET lower == {hex_encode(combine(tag, d)) : tag \in ByteChoices, d \in Bodies} IN
    lower \cup {ToUpper(str) : str \in lower}
          \cup {SubSeq(str, 1, Len(str) - 1) : str \in lower}
          \cup {<<"g">> \o Tail(str) : str \in lower}

\* No conversion made yet; a behaviour makes one
NoConversion == [op |-> "none"]

\* Address::try_from(slice), and to_vec of the address it returned
address_try_from(slice) ==
    /\ codec = NoConversion
    /\ codec' = [op |-> "try_from", input |-> slice,
                 output |-> Address_try_from(slice),
                 back |-> IF Address_try_from(slice).result = "Ok"
                          THEN Address_to_vec(Address_try_from(slice).address)
                          ELSE <<>>]
    /\ UNCHANGED nonCodecVars

\* a.to_vec(), and try_from of the bytes it returned
address_to_vec(a) ==
    /\ codec = NoConversion
    /\ codec' = [op |-> "to_vec", input |-> a,
                 output |-> Address_to_vec(a),
                 back |-> Address_try_from(Address_to_vec(a))]
    /\ UNCHANGED nonCodecVars

\* Address::from_str(str), and to_string of the address it returned
address_from_str(str) ==
    /\ codec = NoConversion
    /\ codec' = [op |-> "from_str", input |-> str,
                 output |-> Address_from_str(str),
                 back |-> IF Address_from_str(str).result = "Ok"
                          THEN Address_to_string(Address_from_str(str).address)
                          ELSE <<>>]
    /\ UNCHANGED nonCodecVars

CodecInit == codec = NoConversion

NextAddress ==
    \/ \E slice \in Slices : address_try_from(slice)
    \/ \E a \in Addresses : address_to_vec(a)
    \/ \E str \in HexStrings : address_from_str(str)

(***************************************************************************)
(* The codec (scrypto/src/buffer/codec.rs).  A usize is 64 bits wide where *)
(* the engine and the tests are built; it is written as two digits of base *)
(* 2^16, the upper one unbounded.  A Vec<u8> is a sequence of runs, a run  *)
(* being a byte and the number of times it is repeated, so that a buffer   *)
(* of 2^32 bytes is a value too.                                           *)
(***************************************************************************)
MaxStringLen == 3

Usize(hi, lo) == [hi |-> hi, lo |-> lo]

\* n + k, for a k below 2^16
usize_add(n, k) == Usize(n.hi + ((n.lo + k) \div 65536), (n.lo + k) % 65536)

\* n - k, for a k below 2^16 that is at most n
usize_sub(n, k) ==
    IF n.lo >= k THEN Usize(n.hi, n.lo - k) ELSE Usize(n.hi - 1, n.lo + 65536 - k)

\* n + m
usize_sum(n, m) ==
    Usize(n.hi + m.hi + ((n.lo + m.lo) \div 65536), (n.lo + m.lo) % 65536)

\* n as u32: the low 32 bits
as_u32(n) == Usize(n.hi % 65536, n.lo)

\* u32::to_le_bytes
to_le_bytes(n) == <<n.lo % 256, n.lo \div 256, n.hi % 256, n.hi \div 256>>

\* u32::from_le_bytes
from_le_bytes(bytes) == Usize(bytes[3] + 256 * bytes[4], bytes[1] + 256 * bytes[2])

Run(byte, count) == [byte |-> byte, count |-> count]

\* The buffer of these bytes, each a run of one
Bytes(bytes) == [i \in 1..Len(bytes) |-> Run(bytes[i], Usize(0, 1))]

\* Vec::len
RECURSIVE buf_len(_)
buf_len(buf) ==
    IF buf = <<>> THEN Usize(0, 0) ELSE usize_sum(buf[1].count, buf_len(Tail(buf)))

\* sbor's type id of a String
TYPE_STRING == 12

\* sbor::encode_with_type(buf, v) of a string v: the type id, the length
\* of the string as a little-endian u32, and the bytes of the string,
\* after what buf holds
encode_with_type(buf, v) ==
    buf \o Bytes(<<TYPE_STRING>>) \o Bytes(to_le_bytes(as_u32(buf_len(v)))) \o v

\* scrypto_encode
scrypto_encode(v) == encode_with_type(<<>>, v)

\* scrypto_encode_for_radix_engine: four bytes are reserved, the value is
\* encoded after them, and the four bytes are overwritten with the length
\* of what follows them, cast to u32
scrypto_encode_for_radix_engine(v) ==
    LET buf == encode_with_type(Bytes(<<0, 0, 0, 0>>), v)
        len == as_u32(usize_sub(buf_len(buf), 4))
    IN  Bytes(to_le_bytes(len)) \o SubSeq(buf, 5, Len(buf))

Characters == {97, 98, 99}

\* The strings written out, of at most MaxStringLen characters
RECURSIVE ShortStrings(_)
ShortStrings(n) ==
    IF n = 0 THEN {<<>>}
    ELSE ShortStrings(n - 1)
         \cup {Bytes(<<c>>) \o str : c \in Characters,
                                    str \in {t \in ShortStrings(n - 1) : Len(t) = n - 1}}

\* The lengths at which a byte of the length changes, less the five bytes
\* the encoding puts before the string, and the lengths around them; every
\* one is a length a u32 holds
LongLengths ==
    {usize_add(usize_sub(boundary, 5 + MaxStringLen), k) :
        boundary \in {Usize(0, 256), Usize(1, 0), Usize(256, 0), Usize(65536, 0)},
        k \in 0..(2 * MaxStringLen)}

\* The strings that repeat one character
LongStrings == {<<Run(c, n)>> : c \in Characters, n \in LongLengths}

Strings == ShortStrings(MaxStringLen) \cup LongStrings

\* scrypto_encode_for_radix_engine(v), and scrypto_encode(v)
encode_for_radix_engine(v) ==
    /\ codec = NoConversion
    /\ codec' = [op |-> "encode_for_radix_engine", input |-> v,
                 output |-> scrypto_encode_for_radix_engine(v),
                 back |-> scrypto_encode(v)]
    /\ UNCHANGED nonCodecVars

NextFraming == \E v \in Strings : encode_for_radix_engine(v)

Init == TrackInit /\ ResourceDefInit /\ TxInit /\ IdInit /\ CodecInit

Spec == Init /\ [][Next]_vars

SpecResourceDef == Init /\ [][NextResourceDef]_vars

SpecAmounts == Init /\ [][NextAmounts]_vars

SpecFlags == Init /\ [][NextFlags]_vars

SpecLock == Init /\ [][NextLock]_vars

SpecErrors == Init /\ [][NextErrors]_vars

SpecTx == Init /\ [][NextTx]_vars

SpecTransfer == Init /\ [][NextTransfer]_vars

SpecAddress == Init /\ [][NextAddress]_vars

SpecFraming == Init /\ [][NextFraming]_vars

SpecNonFungible == Init /\ [][NextNonFungible]_vars

SpecIds == Init /\ [][NextIds]_vars

SpecProcess == Init /\ [][NextProcess]_vars

(***************************************************************************)
(* Claims about the Track.                                                 *)
(***************************************************************************)

\* C1: as long as commit has not run, whatever get_*, get_*_mut, put_*,
\* new_* allocation, add_log and start_process calls were made, the store
\* is exactly what it was when the Track was created; this includes a Track
\* dropped without commit (a failed transaction).
C1_NoCommitNoPersist ==
    phase \in {"live", "dropped"} => ledger = ledger_at_new

\* A Track dropped after staging writes to a key the store holds with
\* another value and to a key the store does not hold.
C1_Witness ==
    /\ phase = "dropped"
    /\ nops = MaxOps
    /\ \E kind \in Kinds : \E k \in track[UpdatedOf(kind)] :
         /\ k \in DOMAIN track[kind]
         /\ Lookup(ledger[kind], k) # track[kind][k]

\* C2: after commit has returned, for each of the six caches and every key
\* of its updated set, the store holds the Track's cached value of the key,
\* which is the value last written by put_* or through get_*_mut.
C2_CommitForwardsCurrent ==
    phase = "committed" =>
        \A kind \in Kinds : \A k \in track[UpdatedOf(kind)] :
            /\ k \in DOMAIN ledger[kind]
            /\ k \in DOMAIN track[kind]
            /\ k \in DOMAIN written[kind]
            /\ ledger[kind][k] = track[kind][k]
            /\ ledger[kind][k] = written[kind][k]

\* A commit, after MaxOps calls, that replaced a value the store held.
C2_Witness ==
    /\ phase = "committed"
    /\ nops = MaxOps
    /\ \E kind \in Kinds : \E k \in track[UpdatedOf(kind)] :
         /\ k \in DOMAIN ledger_at_new[kind]
         /\ ledger_at_new[kind][k] # ledger[kind][k]

(***************************************************************************)
(* Claims about the ResourceDef.                                           *)
(***************************************************************************)

\* The badge holds the permission in the authorities of rd.
Holds(rd, badge, permission) ==
    /\ badge # NoBadge
    /\ badge \in DOMAIN rd.authorities
    /\ permission \subseteq rd.authorities[badge]

\* C6: mint returns Ok only if MINTABLE is on and the badge is a key of
\* authorities whose bitmap contains MAY_MINT; with MINTABLE off it returns
\* OperationNotAllowed whatever the badge; with MINTABLE on and no badge, an
\* unknown badge or a badge without MAY_MINT it returns PermissionNotAllowed.
C6_MintAuth ==
    rd_call.op = "mint" =>
        LET badge == rd_call.args[2] IN
        /\ rd_result = "Ok" =>
              MINTABLE \subseteq rd_before.flags /\ Holds(rd_before, badge, MAY_MINT)
        /\ ~(MINTABLE \subseteq rd_before.flags) => rd_result = "OperationNotAllowed"
        /\ MINTABLE \subseteq rd_before.flags /\ ~Holds(rd_before, badge, MAY_MINT) =>
              rd_result = "PermissionNotAllowed"

\* A mint refused to a badge that is a key of authorities without MAY_MINT.
C6_Witness ==
    /\ rd_call.op = "mint"
    /\ rd_result = "PermissionNotAllowed"
    /\ rd_call.args[2] \in DOMAIN rd_before.authorities
    /\ MAY_BURN \subseteq rd_before.authorities[rd_call.args[2]]

\* The call passed the authorization check of burn.
PassedBurnAuth ==
    \/ rd_call.op = "check_burn_auth" /\ rd_result = "Ok"
    \/ rd_call.op = "burn"
          /\ rd_result \notin {"OperationNotAllowed", "PermissionNotAllowed"}

\* The badge of a burn or check_burn_auth call.
BurnBadge == rd_call.args[Len(rd_call.args)]

\* C7 as stated: whenever FREELY_BURNABLE is on, burn passes the
\* authorization check for every badge, none included; whenever it is off,
\* burn passes it only for a badge that holds MAY_BURN.
C7_Original ==
    rd_call.op \in {"burn", "check_burn_auth"} =>
        /\ FREELY_BURNABLE \subseteq rd_before.flags => PassedBurnAuth
        /\ ~(FREELY_BURNABLE \subseteq rd_before.flags) /\ PassedBurnAuth =>
              Holds(rd_before, BurnBadge, MAY_BURN)

\* C8 as stated: a successful update_flags changes only bits of
\* mutable_flags; when some changed bit is not in mutable_flags and the
\* badge holds MAY_MANAGE_RESOURCE_FLAGS, the call returns InvalidFlagUpdate
\* and flags keeps its value.
C8_Original ==
    rd_call.op = "update_flags" =>
        LET new_flags == rd_call.args[1]
            badge == rd_call.args[2]
            changed == BitXor(rd_before.flags, new_flags) IN
        /\ rd_result = "Ok" =>
              BitXor(rd_before.flags, resource_def.flags) \subseteq rd_before.mutable_flags
        /\ /\ ~(changed \subseteq rd_before.mutable_flags)
           /\ Holds(rd_before, badge, MAY_MANAGE_RESOURCE_FLAGS)
           => rd_result = "InvalidFlagUpdate" /\ resource_def.flags = rd_before.flags

\* C8, amended: a successful update_flags changes only bits of
\* mutable_flags; when some changed bit is not in mutable_flags and the
\* badge holds MAY_MANAGE_RESOURCE_FLAGS, the call fails and flags keeps its
\* value: with InvalidFlagUpdate if every changed bit is a recognized flag,
\* with InvalidResourceFlags if some changed bit is not.
C8_FlagUpdate ==
    rd_call.op = "update_flags" =>
        LET new_flags == rd_call.args[1]
            badge == rd_call.args[2]
            changed == BitXor(rd_before.flags, new_flags) IN
        /\ rd_result = "Ok" =>
              /\ resource_def.flags = new_flags
              /\ BitXor(rd_before.flags, resource_def.flags) \subseteq rd_before.mutable_flags
        /\ /\ ~(changed \subseteq rd_before.mutable_flags)
           /\ Holds(rd_before, badge, MAY_MANAGE_RESOURCE_FLAGS)
           => /\ resource_def.flags = rd_before.flags
              /\ rd_result = IF changed \subseteq ALL_FLAGS
                             THEN "InvalidFlagUpdate"
                             ELSE "InvalidResourceFlags"

\* The call of scenario 6: flags = MINTABLE, mutable_flags = MINTABLE |
\* BURNABLE, new_flags = MINTABLE | RESTRICTED_TRANSFER, refused.
C8_Witness ==
    /\ rd_call.op = "update_flags"
    /\ rd_before.flags = MINTABLE
    /\ rd_before.mutable_flags = MINTABLE \cup BURNABLE
    /\ rd_call.args[1] = MINTABLE \cup RESTRICTED_TRANSFER
    /\ rd_result = "InvalidFlagUpdate"
    /\ resource_def.flags = MINTABLE

\* C21: a ResourceDef made by new and changed by update_flags and
\* update_mutable_flags holds only recognized flag bits in flags and
\* mutable_flags and only recognized permission bits in authorities: new
\* fails with InvalidResourceFlags on an unrecognized flag bit and with
\* InvalidResourcePermission on an unrecognized permission bit, and an
\* update that names an unrecognized bit fails and changes nothing.
C21_RecognizedBits ==
    /\ resource_def # NoResourceDef =>
           /\ resource_def.flags \subseteq ALL_FLAGS
           /\ resource_def.mutable_flags \subseteq ALL_FLAGS
           /\ \A b \in DOMAIN resource_def.authorities :
                  resource_def.authorities[b] \subseteq ALL_PERMISSIONS
    /\ rd_call.op = "new" =>
           LET flags == rd_call.args[2]
               mutable_flags == rd_call.args[3]
               authorities == rd_call.args[4]
               known == flags \cup mutable_flags \subseteq ALL_FLAGS IN
           /\ ~known => rd_result = "InvalidResourceFlags"
           /\ /\ known
              /\ \E b \in DOMAIN authorities : ~(authorities[b] \subseteq ALL_PERMISSIONS)
              => rd_result = "InvalidResourcePermission"
           /\ rd_result # "Ok" => resource_def = NoResourceDef
    /\ /\ rd_call.op \in {"update_flags", "update_mutable_flags"}
       /\ ~(rd_call.args[1] \subseteq ALL_FLAGS)
       => rd_result # "Ok" /\ resource_def = rd_before

\* An authorized update_flags that names an unrecognized bit was refused.
C21_Witness ==
    /\ rd_call.op = "update_flags"
    /\ UNRECOGNIZED_FLAG \subseteq rd_call.args[1]
    /\ Holds(rd_before, rd_call.args[2], MAY_MANAGE_RESOURCE_FLAGS)
    /\ rd_result = "InvalidResourceFlags"
    /\ resource_def = rd_before

\* The supply given to a new, mint or burn call, and the resource type it
\* is held against
CallSupply == IF rd_call.op = "new" THEN rd_call.args[5] ELSE rd_call.args[1]

CallResourceType ==
    IF rd_call.op = "new" THEN rd_call.args[1] ELSE rd_before.resource_type

\* A new, mint or burn call whose supply is of the other variant than the
\* resource type
Unmatched ==
    /\ rd_call.op \in {"new", "mint", "burn"}
    /\ CallSupply.type \in {"Fungible", "NonFungible"}
    /\ CallSupply.type # CallResourceType.type

\* The call came to the match on the resource type and the supply: new with
\* valid flags and permissions, mint and burn with the authorization passed
CameToMatch ==
    \/ rd_call.op = "new"
    \/ rd_call.op = "mint" /\ check_mint_auth(rd_before, rd_call.args[2]) = "Ok"
    \/ rd_call.op = "burn" /\ check_burn_auth(rd_before, rd_call.args[2]) = "Ok"

C23_Original ==
    LET amount == IF CallSupply.type = "Fungible" THEN CallSupply.amount
                  ELSE Dec(Cardinality(CallSupply.keys), 0) IN
    /\ rd_call.op = "mint" /\ rd_result = "Ok" =>
           /\ resource_def.total_supply = DecAdd(rd_before.total_supply, amount)
           /\ ~is_negative(DecSub(resource_def.total_supply, rd_before.total_supply))
    /\ rd_call.op = "burn" /\ rd_result = "Ok" =>
           /\ resource_def.total_supply = DecSub(rd_before.total_supply, amount)
           /\ ~is_negative(DecSub(rd_before.total_supply, resource_def.total_supply))
    /\ rd_call.op \notin {"none", "new", "mint", "burn"} =>
           resource_def.total_supply = rd_before.total_supply

\* C9: check_permission(badge, perm) returns Ok exactly when the badge is
\* Some(b), b is a key of authorities and authorities[b] holds every bit of
\* perm; in every other case it returns PermissionNotAllowed.
C9_CheckPermission ==
    rd_call.op = "check_permission" =>
        LET badge == rd_call.args[1]
            permission == rd_call.args[2] IN
        /\ rd_result \in {"Ok", "PermissionNotAllowed"}
        /\ rd_result = "Ok" <=>
              /\ badge \in Badges
              /\ badge \in DOMAIN resource_def.authorities
              /\ \A bit \in permission : bit \in resource_def.authorities[badge]

\* A check refused to a known badge that holds one of two required bits.
C9_Witness ==
    /\ rd_call.op = "check_permission"
    /\ rd_result = "PermissionNotAllowed"
    /\ rd_call.args[1] \in DOMAIN resource_def.authorities
    /\ rd_call.args[2] = MAY_MINT \cup MAY_BURN
    /\ resource_def.authorities[rd_call.args[1]] = MAY_MINT

(***************************************************************************)
(* Claims about the Track's caches and its allocator.                      *)
(***************************************************************************)

\* C11: a key the Track has cached, because it was read and found or was
\* written, holds the value last written to it through put_* or get_*_mut;
\* a get_* of such a key returns the cached value and leaves it in place, and
\* a get_*_mut of it returns the cached value, whatever the store holds for
\* the key.
C11_ReadYourWrites ==
    [][\A kind \in Kinds, k \in Keys :
         k \in DOMAIN track[kind] =>
            /\ k \in DOMAIN written[kind] => track[kind][k] = written[kind][k]
            /\ nops' = nops + 1 /\ Get(kind, k) =>
                   ret' = track[kind][k] /\ track'[kind][k] = track[kind][k]
            /\ \A w \in Vals :
                   nops' = nops + 1 /\ GetMut(kind, k, w) => ret' = track[kind][k]]_vars

\* A call returned a value that was written to a key for which the store
\* holds another value.
C11_Witness ==
    /\ phase = "live"
    /\ nops = 2
    /\ \E kind \in Kinds, k \in Keys :
         /\ k \in DOMAIN written[kind]
         /\ k \in DOMAIN ledger[kind]
         /\ ledger[kind][k] # written[kind][k]
         /\ ret = written[kind][k]

\* C12: two allocators of one id space that received the same calls with
\* the same transaction hash are in the same state and returned the same
\* result; the result of a call is fixed by the transaction hash, the kind
\* of the call and the number of calls made before it: it is the value of
\* that kind for the counter that many places after the first, or OutOfID
\* when the range has no such counter.
C12_Deterministic ==
    /\ ids.allocator = ids.twin
    /\ ids.result = ids.twin_result
    /\ ids.kind # "none" =>
         ids.result = IF ids.start < ids.allocator.end - (ids.calls - 1)
                      THEN IdValue(ids.kind, ids.hash, ids.start + (ids.calls - 1))
                      ELSE OutOfID

\* The third call, a new_vid with transaction hash 2, on allocators of the
\* Application space that were new.
C12_Witness ==
    /\ ids.space = "Application"
    /\ ids.hash = 2
    /\ ids.calls = 3
    /\ ids.result = <<"Vid", 2, U32(1026)>>
    /\ ids.twin_result = <<"Vid", 2, U32(1026)>>

\* C13: the calls that succeeded are the first calls made, the i-th of them
\* used the counter i - 1 places after the first, so counters go up by one
\* with no gap and none is used twice, and the cursor has moved by one for
\* each of them; on a new Application allocator, a Track's, the i-th call
\* uses counter 1024 + (i - 1).
C13_OneCounterPerCall ==
    /\ \A i \in 1..Len(ids.issued) :
         /\ ids.issued[i].call = i
         /\ ids.issued[i].counter = ids.start + (i - 1)
         /\ \A j \in 1..Len(ids.issued) :
              i < j => ids.issued[i].counter < ids.issued[j].counter
         /\ ids.space = "Application" /\ ids.start = IdAllocator_new("Application").start
              => ids.issued[i].counter = U32(1024 + (i - 1))
    /\ ids.space # "none" => ids.allocator.start = ids.start + Len(ids.issued)

\* The first two calls on a new Application allocator were new_mid: they
\* returned Mid(hash, 1024) and Mid(hash, 1025).
C13_Witness ==
    /\ ids.space = "Application"
    /\ ids.calls = 2
    /\ ids.issued = <<[kind |-> "Mid", counter |-> U32(1024), call |-> 1],
                      [kind |-> "Mid", counter |-> U32(1025), call |-> 2]>>
    /\ ids.result = <<"Mid", ids.hash, U32(1025)>>

\* C14: a call on an allocator whose range is exhausted returns OutOfID and
\* leaves the allocator as it was, exhausted; the cursor never passes the
\* end of the range, and a call that returns OutOfID issues no counter.
C14_Exhausted ==
    /\ ids.kind # "none" /\ ~HasNext(ids.before) =>
         /\ ids.result = OutOfID
         /\ ids.allocator = ids.before
         /\ ~HasNext(ids.allocator)
    /\ ids.space # "none" => ids.allocator.start <= ids.allocator.end
    /\ ids.result = OutOfID =>
         \A i \in 1..Len(ids.issued) : ids.issued[i].call < ids.calls

\* The last counter of a range was issued and the two calls after it
\* returned OutOfID.
C14_Witness ==
    /\ ids.calls = 3
    /\ Len(ids.issued) = 1
    /\ ids.issued[1].counter = ids.allocator.end - 1
    /\ ids.result = OutOfID
    /\ ~HasNext(ids.before)

\* The last counter of each id space as the claim has it
SpaceLast(space) ==
    CASE space = "System" -> U32(511)
      [] space = "Transaction" -> U32(1023)
      [] space = "Application" -> U32_MAX

SpaceFirst(space) ==
    CASE space = "System" -> U32(0)
      [] space = "Transaction" -> U32(512)
      [] space = "Application" -> U32(1024)

\* C15, as stated: an allocator issues the counters of its space and no
\* other, and reports OutOfID only when the last counter of the space has
\* been issued: 511 for System, 1023 for Transaction, 2^32 - 1 for
\* Application.
C15_Original ==
    ids.space # "none" =>
        /\ \A i \in 1..Len(ids.issued) :
             /\ SpaceFirst(ids.space) <= ids.issued[i].counter
             /\ ids.issued[i].counter <= SpaceLast(ids.space)
        /\ ids.result = OutOfID => ids.before.start > SpaceLast(ids.space)

\* C16: the process start_process made is at depth 0 and holds one bucket,
\* under Bid 0: a non-fungible bucket of ECDSA_TOKEN whose keys are the
\* public keys that occur in the Track's signer list, each once, none when
\* the list is empty; its one proof, Rid 1, is of that bucket.
C16_VirtualBucket ==
    process # NoProcess =>
        /\ process.depth = 0
        /\ DOMAIN process.buckets = {ECDSA_TOKEN_BID}
        /\ ECDSA_TOKEN_BID = U32(0)
        /\ process.buckets[ECDSA_TOKEN_BID].resource_address = ECDSA_TOKEN
        /\ process.buckets[ECDSA_TOKEN_BID].resource_type = "NonFungible"
        /\ process.buckets[ECDSA_TOKEN_BID].keys =
               {k \in PublicKeys :
                    \E i \in 1..Len(track.transaction_signers) :
                        track.transaction_signers[i] = k}
        /\ DOMAIN process.bucket_refs = {ECDSA_TOKEN_RID}
        /\ ECDSA_TOKEN_RID = U32(1)
        /\ process.bucket_refs[ECDSA_TOKEN_RID] = ECDSA_TOKEN_BID

\* The process of a Track without signers: the bucket is there and is empty.
C16_Witness ==
    /\ process # NoProcess
    /\ track.transaction_signers = <<>>
    /\ ECDSA_TOKEN_BID \in DOMAIN process.buckets
    /\ process.buckets[ECDSA_TOKEN_BID].keys = {}

(***************************************************************************)
(* Claims about transactions on accounts.                                  *)
(***************************************************************************)
RECURSIVE SumAmounts(_, _)
SumAmounts(containers, S) ==
    IF S = {} THEN Dec(0, 0)
    ELSE LET k == CHOOSE x \in S : TRUE
         IN DecAdd(containers[k].amount, SumAmounts(containers, S \ {k}))

\* The sum of the balances of the vaults of resource r
VaultSum(vaults, r) == SumAmounts(vaults, {v \in DOMAIN vaults : v[2] = r})

\* The quantity of resource r in the vaults, the buckets and on the worktop
Held(t, r) ==
    DecAdd(VaultSum(t.vaults, r),
           DecAdd(SumAmounts(t.buckets,
                             {b \in DOMAIN t.buckets : t.buckets[b].resource_address = r}),
                  IF r \in DOMAIN t.worktop THEN t.worktop[r].amount ELSE Dec(0, 0)))

\* The balance of an account's vault of resource r, 0 without such a vault
Balance(vaults, account, r) ==
    IF <<account, r>> \in DOMAIN vaults THEN vaults[<<account, r>>].amount.w ELSE 0

\* C3: after a transaction that ended Ok, no bucket is left in the root
\* frame or on the worktop, and for every resource the transaction neither
\* minted nor burned the vault balances committed sum to what they summed to
\* before, each account's balance being its balance before, less what was
\* withdrawn from it, plus what was deposited into it.
C3_Conservation ==
    tx.receipt = "Ok" =>
        /\ tx.buckets = EmptyMap
        /\ tx.worktop = EmptyMap
        /\ \A r \in Resources \ tx.minted :
            /\ VaultSum(substate_store.vaults, r) = VaultSum(GenesisVaults, r)
            /\ \A account \in Accounts :
                 Balance(substate_store.vaults, account, r) =
                     Balance(GenesisVaults, account, r)
                         - tx.withdrawn[<<account, r>>] + tx.deposited[<<account, r>>]

\* A committed transfer: one token withdrawn from A and deposit_batch into B.
C3_Witness ==
    /\ tx.receipt = "Ok"
    /\ TOKEN \notin tx.minted
    /\ tx.call.op = "deposit_batch" /\ tx.call.account = "B"
    /\ tx.withdrawn[<<"A", TOKEN>>] = 1
    /\ tx.deposited[<<"B", TOKEN>>] = 1
    /\ Balance(substate_store.vaults, "A", TOKEN) = MaxAmount - 1
    /\ Balance(substate_store.vaults, "B", TOKEN) = 1

\* C4: a transaction ends Ok only with no bucket left in the root frame's
\* table or on the worktop; when the frame exits with a bucket in its table
\* the transaction aborts, and an aborted transaction commits nothing; when
\* it exits with none and an empty worktop it ends Ok; and after a
\* transaction ending Ok whose last call deposited a bucket into an account
\* from which as much was withdrawn as was deposited into it, that account's
\* balance is what it was.
C4_NoDanglingBucket ==
    /\ tx.receipt = "Ok" => tx.buckets = EmptyMap /\ tx.worktop = EmptyMap
    /\ tx.receipt # "Ok" => substate_store = GenesisStore
    /\ tx.exit.op = "exit" /\ tx.exit.buckets # {} => tx.receipt = "Lifecycle"
    /\ tx.exit.op = "exit" /\ tx.exit.buckets = {} /\ tx.exit.worktop = {} =>
           tx.receipt = "Ok"
    /\ \A r \in Resources :
         /\ tx.receipt = "Ok"
         /\ tx.call.op = "deposit"
         /\ tx.withdrawn[<<tx.call.account, r>>] = tx.deposited[<<tx.call.account, r>>]
         => Balance(substate_store.vaults, tx.call.account, r) =
                Balance(GenesisVaults, tx.call.account, r)

\* The round trip: three instructions, a withdrawal of one token from A, the
\* token taken from the worktop into a bucket, the bucket deposited into A.
C4_Witness ==
    /\ tx.receipt = "Ok"
    /\ tx.ninstr = 3
    /\ tx.call.op = "deposit" /\ tx.call.account = "A"
    /\ tx.withdrawn[<<"A", TOKEN>>] = 1
    /\ tx.deposited[<<"A", TOKEN>>] = 1
    /\ TOKEN \notin tx.minted
    /\ Balance(substate_store.vaults, "A", TOKEN) = MaxAmount

WithdrawOps ==
    {"withdraw", "withdraw_with_auth", "withdraw_non_fungibles",
     "withdraw_non_fungibles_with_auth"}

\* C5: a withdraw method of an account that did not abort the transaction
\* was presented a proof of ECDSA_TOKEN holding the key of the account's
\* public key, and that key is a signer of the transaction; a withdraw
\* method presented such a proof does not fail the check; nothing is
\* withdrawn from an account whose key is not a signer, and a transaction
\* that calls a withdraw method of such an account is aborted and commits
\* nothing.
C5_WithdrawAuth ==
    /\ tx.call.op \in WithdrawOps /\ tx.receipt \in {"pending", "Ok"} =>
        /\ tx.call.account_auth.resource_address = ECDSA_TOKEN
        /\ non_fungible_key(tx.call.account) \in tx.call.account_auth.keys
        /\ public_key[tx.call.account] \in SignerKeys(tx.signers)
    /\ /\ tx.call.op \in WithdrawOps
       /\ check_non_fungible_key(tx.call.account_auth, ECDSA_TOKEN,
                                 non_fungible_key(tx.call.account))
       => tx.receipt # "Authority"
    /\ \A account \in Accounts :
         public_key[account] \notin SignerKeys(tx.signers) =>
            /\ \A r \in Resources : tx.withdrawn[<<account, r>>] = 0
            /\ tx.call.op \in WithdrawOps /\ tx.call.account = account =>
                   /\ tx.receipt \notin {"pending", "Ok"}
                   /\ substate_store = GenesisStore

\* A committed transaction signed by A's key alone that withdrew from A.
C5_Witness ==
    /\ tx.receipt = "Ok"
    /\ SignerKeys(tx.signers) = {public_key["A"]}
    /\ tx.withdrawn[<<"A", TOKEN>>] = 1
    /\ Balance(substate_store.vaults, "A", TOKEN) = MaxAmount - 1

\* C10, as stated: the total_supply of every resource is the sum of the
\* quantities of it held in all vaults and buckets, and is not negative.
C10_Original ==
    \A r \in DOMAIN tx.resource_defs :
        /\ tx.resource_defs[r].total_supply = Held(tx, r)
        /\ ~is_negative(tx.resource_defs[r].total_supply)


\* C17: a function that makes a Vault and returns without the vault being
\* part of a component's state (dangling_vault) aborts the transaction and
\* nothing it did is committed; between instructions no vault is left
\* outside a component's state, and every vault of the store is in the
\* state of a component of the store.
C17_NoDanglingVault ==
    /\ tx.call.op = "dangling_vault" =>
           /\ tx.receipt = "Lifecycle"
           /\ substate_store = GenesisStore
           /\ tx.vaults = GenesisVaults
           /\ NEW_TOKEN \notin DOMAIN tx.resource_defs
    /\ tx.unstored = {}
    /\ \A v \in DOMAIN substate_store.vaults :
           \E c \in DOMAIN substate_store.components :
               v \in substate_store.components[c]

C17_Witness ==
    /\ tx.call.op = "dangling_vault"
    /\ tx.receipt = "Lifecycle"
    /\ substate_store = GenesisStore

(***************************************************************************)
(* Claims about amounts and divisibility.                                  *)
(***************************************************************************)
\* The fungible amount a call of new, mint or burn was given, if any
NegativeFungibleCall ==
    /\ rd_call.op \in {"new", "mint", "burn"}
    /\ LET supply == IF rd_call.op = "new" THEN rd_call.args[5] ELSE rd_call.args[1]
           rd == IF rd_call.op = "new" THEN [resource_type |-> rd_call.args[1]]
                 ELSE rd_before
       IN /\ rd.resource_type.type = "Fungible"
          /\ supply.type = "Fungible"
          /\ is_negative(supply.amount)

\* C18: ResourceDef::new with a fungible initial supply, mint and burn
\* fail on a negative fungible amount and leave total_supply unchanged
\* (check_amount rejecting every negative amount).
C18_Original ==
    NegativeFungibleCall =>
        /\ rd_result # "Ok"
        /\ resource_def = rd_before

\* The number of zeros that end the decimal digits of a positive limb
RECURSIVE TrailingZeros(_)
TrailingZeros(n) == IF n % 10 # 0 THEN 0 ELSE 1 + TrailingZeros(n \div 10)

\* The non-negative amount a, in its 18-decimal units, is a multiple of 10^p
IsMultipleOfPow10(a, p) ==
    IF a.f # 0 THEN TrailingZeros(a.f) >= p
    ELSE IF a.m # 0 THEN 9 + TrailingZeros(a.m) >= p
    ELSE TRUE

\* A check_amount call on a fungible resource of divisibility 0..18 with a
\* non-negative amount
CheckedAmount ==
    /\ rd_call.op = "check_amount"
    /\ resource_def.resource_type.type = "Fungible"
    /\ resource_def.resource_type.divisibility <= 18
    /\ ~is_negative(rd_call.args[1])

\* C19: on a fungible resource of divisibility d in 0..18, check_amount of
\* a non-negative amount returns Ok exactly when the amount's raw units are
\* a multiple of 10^(18 - d), and InvalidAmount otherwise: with d = 0 every
\* non-integer amount is rejected and with d = 18 every amount is accepted.
C19_CheckAmount ==
    CheckedAmount =>
        LET a == rd_call.args[1]
            d == resource_def.resource_type.divisibility
        IN /\ rd_result = IF IsMultipleOfPow10(a, 18 - d) THEN "Ok" ELSE "InvalidAmount"
           /\ d = 0 /\ (a.m # 0 \/ a.f # 0) => rd_result = "InvalidAmount"
           /\ d = 18 => rd_result = "Ok"

\* 0.1 is accepted at divisibility 1 and rejected at divisibility 0
C19_Witness ==
    /\ CheckedAmount
    /\ rd_call.args[1] = DecLimbs(0, Pow10[8], 0)
    /\ resource_def.resource_type.divisibility = 0
    /\ rd_result = "InvalidAmount"

\* C20: ResourceDef::new fails with InvalidDivisibility for every Fungible
\* resource type of a divisibility above 18, whatever the initial supply
\* is, and no ResourceDef has a divisibility above 18.
C20_Original ==
    /\ /\ rd_call.op = "new"
       /\ rd_call.args[1].type = "Fungible"
       /\ rd_call.args[1].divisibility > 18
       => rd_result = "InvalidDivisibility"
    /\ resource_def # NoResourceDef =>
           resource_def.resource_type.divisibility <= 18

(***************************************************************************)
(* Claims about restricted transfer, non-fungible keys and vaults.         *)
(***************************************************************************)
\* The badge that a withdraw call brings to the vault
TakeBadge ==
    IF tx.call.op = "withdraw_with_auth" THEN Badge(tx.call.auth) ELSE NoBadge

\* A withdraw or withdraw_with_auth call of the account's signer on a vault
\* that exists: the call that reaches the vault
TakeCall ==
    /\ tx.call.op \in {"withdraw", "withdraw_with_auth"}
    /\ check_non_fungible_key(tx.call.account_auth, ECDSA_TOKEN,
                              non_fungible_key(tx.call.account))
    /\ <<tx.call.account, tx.call.resource_address>> \in DOMAIN substate_store.vaults

Containers(t) ==
    {<<"vault", v>> : v \in DOMAIN t.vaults}
        \cup {<<"bucket", b>> : b \in DOMAIN t.buckets}
        \cup {<<"worktop", r>> : r \in DOMAIN t.worktop}

ContainerOf(t, c) ==
    IF c[1] = "vault" THEN t.vaults[c[2]]
    ELSE IF c[1] = "bucket" THEN t.buckets[c[2]]
    ELSE t.worktop[c[2]]

\* The keys of the non-fungible resource that a vault of the account holds
VaultKeys(t, account) ==
    IF <<account, NFT>> \in DOMAIN t.vaults THEN t.vaults[<<account, NFT>>].keys ELSE {}

WorktopKeys(t) == IF NFT \in DOMAIN t.worktop THEN t.worktop[NFT].keys ELSE {}

\* No container counts a key twice, no two containers hold the same key,
\* and the keys of all containers are those of the total supply
UniqueKeys(t, store) ==
    /\ \A c \in Containers(t) :
           ContainerOf(t, c).resource_address = NFT =>
               ContainerOf(t, c).amount = Dec(Cardinality(ContainerOf(t, c).keys), 0)
    /\ \A c, d \in Containers(t) :
           /\ c # d
           /\ ContainerOf(t, c).resource_address = NFT
           /\ ContainerOf(t, d).resource_address = NFT
           => ContainerOf(t, c).keys \cap ContainerOf(t, d).keys = {}
    /\ t.resource_defs[NFT].total_supply = store.resource_defs[NFT].total_supply
    /\ Cardinality(UNION {ContainerOf(t, c).keys : c \in Containers(t)})
           = t.resource_defs[NFT].total_supply.w

\* C25: a withdraw_non_fungibles of the keys K that succeeds removes exactly
\* K from the vault of the account and puts them on the worktop; a
\* deposit_batch that succeeds adds exactly the keys of the worktop to the
\* vault of the account; total_supply stays as it was, no container counts a
\* key twice and no two containers hold the same key.
C25_NonFungibleKeys ==
    [][/\ tx'.receipt # "none" => UniqueKeys(tx', substate_store')
       /\ /\ tx'.call.op = "withdraw_non_fungibles"
          /\ tx.receipt = "pending"
          /\ tx'.ninstr = tx.ninstr + 1
          => LET K == tx'.call.keys
                 account == tx'.call.account IN
             /\ K \subseteq VaultKeys(tx, account)
             /\ VaultKeys(tx', account) = VaultKeys(tx, account) \ K
             /\ WorktopKeys(tx') = WorktopKeys(tx) \cup K
             /\ \A other \in Accounts \ {account} :
                    VaultKeys(tx', other) = VaultKeys(tx, other)
       /\ /\ tx'.call.op = "deposit_batch"
          /\ tx.receipt = "pending"
          /\ tx'.ninstr = tx.ninstr + 1
          => LET account == tx'.call.account IN
             /\ VaultKeys(tx', account) = VaultKeys(tx, account) \cup WorktopKeys(tx)
             /\ VaultKeys(tx, account) \cap WorktopKeys(tx) = {}
             /\ WorktopKeys(tx') = {}
             /\ \A other \in Accounts \ {account} :
                    VaultKeys(tx', other) = VaultKeys(tx, other)]_vars

\* Key 1 of the keys 1, 2, 3 of A was withdrawn and deposited into B, and
\* the transaction is committed: A holds 2 and 3, B holds 1
C25_Witness ==
    /\ tx.receipt = "Ok"
    /\ tx.call.op = "deposit_batch" /\ tx.call.account = "B"
    /\ VaultKeys(substate_store, "A") = HeldKeys \ {1}
    /\ VaultKeys(substate_store, "B") = {1}
    /\ NumHeldKeys > 1
    /\ substate_store.resource_defs[NFT].total_supply = Dec(NumHeldKeys, 0)

\* The vaults of fungible resources of the running transaction that hold a
\* non-negative amount
FungibleVaults ==
    {v \in DOMAIN tx.vaults :
        /\ tx.resource_defs[v[2]].resource_type.type = "Fungible"
        /\ ~is_negative(tx.vaults[v].amount)}

ReadKinds == {"packages", "components", "resource_defs", "lazy_maps", "non_fungibles"}

\* The keys of a cache that no put_* and no get_*_mut was called with
OnlyRead(kind) == DOMAIN track[kind] \ track[UpdatedOf(kind)]

\* C29: only put_* and get_*_mut mark a key as updated, and get_package,
\* get_component, get_resource_def, get_lazy_map and get_non_fungible never
\* do.  Every key a put_* or get_*_mut wrote is in the updated set of its
\* cache; every key of an updated set was written by one of them or was
\* given to a get_*_mut that found no value (neither the cache nor the
\* store holds it); a key of a cache that is not in the updated set, one
\* that was only read, has the store's value; and once commit has run the
\* store's value of every key outside the updated sets is what it was.
C29_OnlyMutatingMarks ==
    \A kind \in Kinds : \A k \in Keys :
        /\ k \in DOMAIN written[kind] => k \in track[UpdatedOf(kind)]
        /\ k \in track[UpdatedOf(kind)] =>
               \/ k \in DOMAIN written[kind]
               \/ k \notin DOMAIN track[kind] /\ k \notin DOMAIN ledger_at_new[kind]
        /\ k \in OnlyRead(kind) =>
               /\ k \in DOMAIN ledger_at_new[kind]
               /\ track[kind][k] = ledger_at_new[kind][k]
        /\ phase \in {"committed", "panicked"} /\ k \notin track[UpdatedOf(kind)] =>
               Lookup(ledger[kind], k) = Lookup(ledger_at_new[kind], k)

\* A commit that wrote the value put for one key and left alone a key of
\* the same cache that get_<kind> had read
C29_Witness ==
    /\ phase = "committed"
    /\ \E kind \in ReadKinds : \E k \in OnlyRead(kind) :
         /\ ledger[kind][k] = ledger_at_new[kind][k]
         /\ \E j \in track[UpdatedOf(kind)] :
              Lookup(ledger[kind], j) # Lookup(ledger_at_new[kind], j)

\* C30: in every state of the Track each key of an updated set has an
\* entry in the cache of that set, after a get_*_mut that returned None for
\* a key neither the cache nor the store holds too, so that commit forwards
\* a value for every updated key and never fails.
C30_Original ==
    /\ \A kind \in Kinds : track[UpdatedOf(kind)] \subseteq DOMAIN track[kind]
    /\ phase # "panicked"

(***************************************************************************)
(* Claims about the encodings.                                             *)
(***************************************************************************)
\* The tag byte of each variant
TagOf(variant) ==
    IF variant = "Package" THEN 1 ELSE IF variant = "Component" THEN 2 ELSE 3

\* What C27 says of the bytes: to_vec(a) is the tag byte of the variant and
\* the 26 bytes of the body, 27 bytes that try_from turns into a again;
\* try_from of 27 bytes with a tag 1, 2 or 3 is an address whose to_vec is
\* those bytes, any other length is InvalidLength, any other tag InvalidType.
AddressBytes ==
    /\ codec.op = "to_vec" =>
           /\ Len(codec.output) = 27
           /\ codec.output[1] = TagOf(codec.input.variant)
           /\ SubSeq(codec.output, 2, 27) = codec.input.d
           /\ codec.back = ParseOk(codec.input)
    /\ codec.op = "try_from" =>
           LET slice == codec.input IN
           IF Len(slice) # 27
           THEN codec.output = ParseErr("InvalidLength", Len(slice))
           ELSE IF slice[1] \notin {1, 2, 3}
           THEN codec.output = ParseErr("InvalidType", slice[1])
           ELSE /\ codec.output.result = "Ok"
                /\ TagOf(codec.output.address.variant) = slice[1]
                /\ codec.output.address.d = SubSeq(slice, 2, 27)
                /\ codec.back = slice

\* C27 as stated: the bytes, and from_str then to_string returns the same
\* hex string.
C27_Original ==
    /\ AddressBytes
    /\ codec.op = "from_str" /\ codec.output.result = "Ok" => codec.back = codec.input

\* C27, amended: the bytes, and from_str then to_string returns the hex
\* string in lower case: the same string when it is written in lower case,
\* another one when it holds an upper case digit.
C27_AddressRoundTrip ==
    /\ AddressBytes
    /\ codec.op = "from_str" =>
           /\ codec.output.result = "Ok" => codec.back = ToLower(codec.input)
           /\ codec.output.result = "Ok" /\ codec.input = ToLower(codec.input) =>
                  codec.back = codec.input
           /\ Len(codec.input) = 54 /\ codec.input[2] \in {"1", "2", "3"}
                  /\ (\A i \in 1..54 : codec.input[i] \in HexCharacters)
                  /\ codec.input[1] = "0"
                  => codec.output.result = "Ok"

\* from_str read a string with upper case digits and to_string of the
\* address it returned is another string
C27_Witness ==
    /\ codec.op = "from_str"
    /\ codec.output.result = "Ok"
    /\ codec.input[54] = "F"
    /\ codec.back # codec.input
    /\ codec.back[54] = "f"

\* The bytes of a buffer of runs of one
Plain(buf) == [i \in 1..Len(buf) |-> buf[i].byte]

\* What C28 says of one call: the result is four bytes, the little-endian
\* length L, followed by the bytes of scrypto_encode(v), which are L bytes,
\* and is L + 4 bytes long.
Framed ==
    LET buf == codec.output
        L == from_le_bytes(Plain(SubSeq(buf, 1, 4)))
    IN  /\ Len(buf) >= 4
        /\ \A i \in 1..4 : buf[i].count = Usize(0, 1)
        /\ SubSeq(buf, 5, Len(buf)) = codec.back
        /\ buf_len(codec.back) = L
        /\ buf_len(buf) = usize_add(L, 4)

\* C28: for every value v, scrypto_encode_for_radix_engine(v) is a 4-byte
\* little-endian length L followed by exactly L bytes that equal
\* scrypto_encode(v), and its length is L + 4.
C28_Original == codec.op = "encode_for_radix_engine" => Framed

\* The framing of values whose encoding is shorter than 2^32 bytes, and of
\* "abc" as the test of codec.rs has it
FramedBelowU32 ==
    codec.op = "encode_for_radix_engine" =>
        /\ buf_len(codec.back).hi < 65536 => Framed
        /\ codec.input = Bytes(<<97, 98, 99>>) =>
               Plain(codec.output) = <<8, 0, 0, 0, 12, 3, 0, 0, 0, 97, 98, 99>>

(***************************************************************************)
(* Claims about the flags and their locks.                                 *)
(***************************************************************************)
\* C31: over any sequence of calls on a ResourceDef, mutable_flags never
\* gains a bit (every successful update_mutable_flags yields a subset of
\* what it was), and the bit of flags of a bit that is not in mutable_flags
\* keeps its value in the next state, hence, the bit staying locked, in
\* every later one.
C31_LocksStay ==
    [][resource_def # NoResourceDef =>
          /\ resource_def'.mutable_flags \subseteq resource_def.mutable_flags
          /\ (resource_def'.flags \ resource_def.mutable_flags)
                 = (resource_def.flags \ resource_def.mutable_flags)]_vars

\* update_mutable_flags has cleared a bit that is on in flags, and a later
\* update_flags that clears that bit is refused
C31_Witness ==
    /\ rd_call.op = "update_flags"
    /\ rd_result = "InvalidFlagUpdate"
    /\ \E bit \in FlagBits :
         /\ bit \in resource_def.flags
         /\ bit \notin resource_def.mutable_flags
         /\ bit \notin rd_call.args[1]
    /\ resource_def.mutable_flags # {}

\* The badge holds MAY_MANAGE_RESOURCE_FLAGS in the ResourceDef
MayManageFlags(rd, badge) ==
    /\ badge \in DOMAIN rd.authorities
    /\ MAY_MANAGE_RESOURCE_FLAGS \subseteq rd.authorities[badge]

\* C32: lock_flags(f, auth) with a badge that holds
\* MAY_MANAGE_RESOURCE_FLAGS and f a subset of mutable_flags succeeds, and
\* the mutable_flags after it are those before it without the bits of f,
\* flags being unchanged.
C32_Original ==
    /\ rd_call.op = "lock_flags"
    /\ MayManageFlags(rd_before, rd_call.args[2])
    /\ rd_call.args[1] \subseteq rd_before.mutable_flags
    => /\ rd_result = "Ok"
       /\ resource_def.mutable_flags = rd_before.mutable_flags \ rd_call.args[1]
       /\ resource_def.flags = rd_before.flags

\* C33: in every ResourceDef that new and update_flags lead to, BURNABLE is
\* on whenever FREELY_BURNABLE is on.
C33_Original ==
    resource_def # NoResourceDef =>
        (is_flag_on(resource_def, FREELY_BURNABLE) => is_flag_on(resource_def, BURNABLE))

\* C34: update_flags and update_mutable_flags succeed only with a badge
\* that holds MAY_MANAGE_RESOURCE_FLAGS in authorities, whatever the flags
\* are; without such a badge both return PermissionNotAllowed, whether the
\* value asked for is valid, invalid or the current one.
C34_PermissionFirst ==
    rd_call.op \in {"update_flags", "update_mutable_flags"} =>
        /\ rd_result = "Ok" => MayManageFlags(rd_before, rd_call.args[2])
        /\ ~MayManageFlags(rd_before, rd_call.args[2]) =>
               /\ rd_result = "PermissionNotAllowed"
               /\ resource_def = rd_before

\* update_mutable_flags, called without a badge with a value that holds an
\* unrecognized bit, has returned PermissionNotAllowed
C34_Witness ==
    /\ rd_call.op = "update_mutable_flags"
    /\ rd_call.args[2] = NoBadge
    /\ UNRECOGNIZED_FLAG \subseteq rd_call.args[1]
    /\ rd_result = "PermissionNotAllowed"

\* C35: mint, burn, update_flags, update_mutable_flags and update_metadata,
\* when they return an error, leave every field of the ResourceDef as it
\* was before the call; and none of them, whatever it returns, changes
\* resource_type or authorities.
C35_ErrorsChangeNothing ==
    rd_call.op \in {"mint", "burn", "update_flags", "update_mutable_flags",
                    "update_metadata"} =>
        /\ rd_result # "Ok" => resource_def = rd_before
        /\ resource_def.resource_type = rd_before.resource_type
        /\ resource_def.authorities = rd_before.authorities

\* update_metadata with other metadata than the ResourceDef holds has been
\* refused, on a ResourceDef whose flags and total supply earlier calls
\* have changed
C35_Witness ==
    /\ rd_call.op = "update_metadata"
    /\ rd_result \in {"PermissionNotAllowed", "OperationNotAllowed"}
    /\ rd_call.args[1] # resource_def.metadata
    /\ resource_def.total_supply # Dec(0, 0)

(***************************************************************************)
(* Claims about the ids and the new entities of a Track.                   *)
(***************************************************************************)
\* C36: every id a Track allocates has a counter of at least 1024, and no
\* bucket id and no proof id it allocates is the id of the virtual
\* signature bucket, Bid 0, or of its proof, Rid 1.
C36_AllocatedIdsApart ==
    [][track'.id_allocator # track.id_allocator =>
          /\ ret'[Len(ret')] = NextId(track.id_allocator)
          /\ ret'[Len(ret')] >= U32(1024)
          /\ ret'[1] = "Bid" => ret'[2] # ECDSA_TOKEN_BID
          /\ ret'[1] = "Rid" => ret'[2] # ECDSA_TOKEN_RID]_vars

\* Beside the virtual bucket and its proof of a started process, every call
\* on the Track has allocated an id, the last one a bucket or a proof id
C36_Witness ==
    /\ process # NoProcess
    /\ nops = MaxOps
    /\ track.id_allocator.start = U32(1024) + MaxOps
    /\ ret[1] \in {"Bid", "Rid"}

\* C37: the ids of the virtual signature bucket and of its proof,
\* ECDSA_TOKEN_BID and ECDSA_TOKEN_RID, lie in the range 512..1024 of the
\* ids of transaction-level virtual containers.
C37_Original ==
    process # NoProcess =>
        /\ \A bid \in DOMAIN process.buckets :
              /\ IdAllocator_new("Transaction").start <= bid
              /\ bid < IdAllocator_new("Transaction").end
        /\ \A rid \in DOMAIN process.bucket_refs :
              /\ IdAllocator_new("Transaction").start <= rid
              /\ rid < IdAllocator_new("Transaction").end

\* The ResourceDef addresses of a list of entities, in its order
ResourceDefs(entities) == SelectSeq(entities, LAMBDA a : a[1] = "ResourceDef")

\* C38: new_entities is the sequence of the addresses that
\* new_package_address, new_component_address and new_resource_address
\* returned, in the order of the calls: each of them appends the address it
\* returns, new_uuid, new_bid, new_rid, new_vid and new_mid take a counter
\* and leave the list as it is, and so does every other call; hence the
\* resource definition created i-th is the i-th ResourceDef address of the
\* list.
C38_NewEntities ==
    [][/\ track'.id_allocator = track.id_allocator =>
              track'.new_entities = track.new_entities
       /\ track'.id_allocator # track.id_allocator =>
              /\ track'.id_allocator = AfterNext(track.id_allocator)
              /\ IF ret'[1] \in {"Package", "Component", "ResourceDef"}
                 THEN track'.new_entities = Append(track.new_entities, ret')
                 ELSE track'.new_entities = track.new_entities
              /\ ret'[1] = "ResourceDef" =>
                     /\ Len(ResourceDefs(track'.new_entities))
                            = Len(ResourceDefs(track.new_entities)) + 1
                     /\ ResourceDefs(track'.new_entities)
                            [Len(ResourceDefs(track.new_entities)) + 1] = ret']_vars

\* MaxOps calls after which the list holds a ResourceDef address as its
\* last entity, allocated after an id that is no entity or after another
\* entity
C38_Witness ==
    /\ nops = MaxOps
    /\ track.id_allocator.start = U32(1024) + MaxOps
    /\ Len(track.new_entities) \in 1..(MaxOps - 1)
    /\ track.new_entities[Len(track.new_entities)][1] = "ResourceDef"
    /\ track.new_entities[Len(track.new_entities)][3] = U32(1024) + (MaxOps - 1)

====
